---- MODULE Spec2Model ----
(***************************************************************************)
(* Blend attribute compression of MomentsInGraphics/vulkan_renderer:       *)
(* the bit-packing primitive (blend_attribute_compression_related_work.h)  *)
(* and parameter completion, bone-count reduction, the per-vertex encoder   *)
(* and the tuple-table build (blend_attribute_compression.c), and the      *)
(* optimal simplex sampling codec for four weights (vbac_compression.c).   *)
(*                                                                         *)
(* Representation.  A uint32_t is the set of its set bit positions, a      *)
(* subset of 0..31, so that all 32 bits are kept (the model checker's      *)
(* integers are signed 32-bit).  Memory that is accessed through           *)
(* uint32_t* casts is the set of absolute bit positions that hold a one,   *)
(* little endian: bit b of the dword at byte address a is position         *)
(* 8*a + b.  Weights are exact rationals n / WeightDen.  The uint32_t      *)
(* max_tuple_count is the integer of the same 32 bits in two's complement: *)
(* a negative integer n stands for n + 2^32.                               *)
(***************************************************************************)
EXTENDS Integers, Sequences, FiniteSets, TLC

VARIABLES
    pc,         \* "ready" before the modelled call, "done" after it,
                \* "hung" in a call that never returns
    mem,        \* long_bitfield_insert: the memory behind output
    mcall,      \* long_bitfield_insert: arguments and memory before the call
    params,     \* blend_attribute_compression_parameters_t being completed
    request,    \* the bundle as first handed to completion
    history,    \* the bundle after each completion so far
    cstat,      \* completion: whether the last call returned, what it read
    call,       \* compress_blend_attribute_buffers: arguments and old outputs
    out,        \* compress_blend_attribute_buffers: outputs and return value
    rcall,      \* reduce_bone_count: arguments and old outputs
    rout,       \* reduce_bone_count: outputs and return value
    oss,        \* vbac_oss_compress: arguments, code and decoded tuple
    vcall       \* compress_vertex_blend_attributes: arguments of one call

vars == <<pc, mem, mcall, params, request, history, cstat, call, out, rcall, rout, oss, vcall>>

NoCall == [kind |-> "none"]

-----------------------------------------------------------------------------
(* uint32_t arithmetic on bit sets                                         *)

WordBits == 32
WordRange == 0 .. (WordBits - 1)

\* The uint32_t with value n, 0 <= n < 2^31
U32(n) == {i \in 0 .. (WordBits - 2) : (n \div (2 ^ i)) % 2 = 1}

Shl(w, s) == {i + s : i \in w} \cap WordRange
Shr(w, s) == {i - s : i \in {j \in w : j >= s}}
Not32(w) == WordRange \ w

\* x - 1 in uint32_t arithmetic (0 wraps to 0xffffffff)
Dec32(w) ==
    IF w = {} THEN WordRange
    ELSE LET low == CHOOSE i \in w : \A j \in w : i <= j
         IN  (w \ {low}) \cup (0 .. (low - 1))

\* The outcomes of (1 << 32) - 1, which is undefined in C: the shift count
\* is taken modulo 32 (x86 shl, giving 1 - 1) or the one is shifted out
\* (constant folding, ARM, giving 0 - 1).
ShiftUB == {{}, WordRange}

\* (1 << n) - 1 converted to uint32_t; ub is the outcome for n = 32
LowMask(n, ub) == IF n < WordBits THEN 0 .. (n - 1) ELSE ub

\* The dword d of the uint32_t array that starts at bit address base
ReadDword(m, base, d) == {i \in WordRange : (base + WordBits * d + i) \in m}

WriteDword(m, base, d, w) ==
    LET lo == base + WordBits * d
    IN  (m \ (lo .. (lo + WordBits - 1))) \cup {lo + i : i \in w}

long_bitfield_insert(m, base, insert, offset, bit_count, ub) ==
    LET insert_mask == LowMask(bit_count, ub)
        ins         == insert \cap insert_mask
        dest_dword  == offset \div 32
        dest_offset == offset % 32
        first       == (ReadDword(m, base, dest_dword)
                            \cap Not32(Shl(insert_mask, dest_offset)))
                        \cup Shl(ins, dest_offset)
        m1          == WriteDword(m, base, dest_dword, first)
        dest_end    == dest_offset + bit_count
    IN  IF dest_end > 32
        THEN LET first_dword_bit_count == 32 - dest_offset
                 second == (ReadDword(m1, base, dest_dword + 1)
                                \cap LowMask(dest_end - 32, {}))
                            \cup Shr(ins, first_dword_bit_count)
             IN  WriteDword(m1, base, dest_dword + 1, second)
        ELSE m1

\* The bits [offset, offset + bit_count) behind base, as a value
ExtractBits(m, base, offset, bit_count) ==
    {i \in 0 .. (bit_count - 1) : (base + offset + i) \in m}

-----------------------------------------------------------------------------
(* Specification of the bit-packing primitive                              *)

MaxOffset == 40
MemBits == WordBits * ((MaxOffset \div WordBits) + 2)

\* uint32_t values to insert: 0, 1, 0x2d, 0x80000001, 0xa5a5a5a5, 0xffffffff
InsertValues ==
    { {}, {0}, {0, 2, 3, 5}, {0, 31}, WordRange,
      {i \in WordRange : i % 8 \in {0, 2, 5, 7}} }

InsertOffsets == 0 .. MaxOffset

MemPatterns ==
    { {}, 0 .. (MemBits - 1), {i \in 0 .. (MemBits - 1) : i % 3 = 0} }

InitInsert ==
    /\ pc = "ready"
    /\ mem \in MemPatterns
    /\ mcall = NoCall
    /\ params = NoCall
    /\ request = NoCall
    /\ history = <<>>
    /\ cstat = NoCall
    /\ call = NoCall
    /\ out = NoCall
    /\ rcall = NoCall
    /\ rout = NoCall
    /\ oss = NoCall
    /\ vcall = NoCall

LongBitfieldInsert ==
    /\ pc = "ready"
    /\ \E insert \in InsertValues, offset \in InsertOffsets,
          bit_count \in 0 .. 32, ub \in ShiftUB :
          /\ mem' = long_bitfield_insert(mem, 0, insert, offset, bit_count, ub)
          /\ mcall' = [kind |-> "insert", insert |-> insert, offset |-> offset,
                       bit_count |-> bit_count, old |-> mem]
    /\ pc' = "done"
    /\ UNCHANGED <<params, request, history, cstat, call, out, rcall, rout, oss, vcall>>

NextInsert == LongBitfieldInsert

SpecInsert == InitInsert /\ [][NextInsert]_vars

\* C1: after long_bitfield_insert(buf, v, o, b) with b in [0, 32] the bits
\* [o, o+b) hold the low b bits of v and every other bit keeps its old
\* value, also when the range crosses a 32-bit word boundary.
InsertReplacesExactlyTheRange ==
    pc = "done" =>
        /\ ExtractBits(mem, 0, mcall.offset, mcall.bit_count)
             = mcall.insert \cap (0 .. (mcall.bit_count - 1))
        /\ \A i \in 0 .. (MemBits - 1) :
             (i < mcall.offset \/ i >= mcall.offset + mcall.bit_count)
                => ((i \in mem) <=> (i \in mcall.old))

\* The same statement for ranges inside one dword and b < 32
InsertWithinOneDword ==
    (pc = "done" /\ mcall.bit_count < 32
        /\ (mcall.offset % 32) + mcall.bit_count <= 32) =>
        /\ ExtractBits(mem, 0, mcall.offset, mcall.bit_count)
             = mcall.insert \cap (0 .. (mcall.bit_count - 1))
        /\ \A i \in 0 .. (MemBits - 1) :
             (i < mcall.offset \/ i >= mcall.offset + mcall.bit_count)
                => ((i \in mem) <=> (i \in mcall.old))

-----------------------------------------------------------------------------
(* Parameter completion                                                    *)

SUPPORTED_BONE_COUNT == 13

\* blend_attribute_compression_method_t; "count" stands for every value
\* that is none of the methods
Methods ==
    { "none", "unit_cube_sampling", "power_of_two_aabb",
      "optimal_simplex_sampling_19", "optimal_simplex_sampling_22",
      "optimal_simplex_sampling_35", "permutation_coding", "count" }

power_of_two_weight_savings == <<0, 0, 1, 1, 1, 1, 2, 2, 2, 2, 2, 2>>

get_optimal_simplex_sampling_bit_count(method) ==
    CASE method = "optimal_simplex_sampling_19" -> 19
      [] method = "optimal_simplex_sampling_22" -> 22
      [] method = "optimal_simplex_sampling_35" -> 35
      [] OTHER -> 0

\* Rows are <<entry_count, weight_value_count, extra_value_counts,
\* payload_value_count_over_factorial>>, indexed from 1 by tuple count
\* class, bone count - 1 and vertex size.
permutation_codecs ==
    <<
      <<
        << <<1, 2, <<1>>, 128>>,
           <<1, 512, <<1>>, 128>>,
           <<0, 0, <<>>, 0>>,
           <<0, 0, <<>>, 0>>,
           <<0, 0, <<>>, 0>>,
           <<0, 0, <<>>, 0>>,
           <<0, 0, <<>>, 0>>,
           <<0, 0, <<>>, 0>> >>,
        << <<0, 0, <<>>, 0>>,
           <<2, 32, <<1, 1>>, 64>>,
           <<2, 362, <<1, 2>>, 128>>,
           <<2, 5792, <<1, 2>>, 128>>,
           <<0, 0, <<>>, 0>>,
           <<0, 0, <<>>, 0>>,
           <<0, 0, <<>>, 0>>,
           <<0, 0, <<>>, 0>> >>,
        << <<0, 0, <<>>, 0>>,
           <<3, 11, <<1, 1, 2>>, 43>>,
           <<3, 73, <<1, 1, 2>>, 43>>,
           <<3, 463, <<1, 1, 2>>, 43>>,
           <<3, 812, <<3, 4, 8>>, 2048>>,
           <<3, 5160, <<3, 4, 8>>, 2048>>,
           <<3, 32767, <<3, 4, 8>>, 2048>>,
           <<0, 0, <<>>, 0>> >>,
        << <<0, 0, <<>>, 0>>,
           <<4, 8, <<1, 1, 1, 3>>, 16>>,
           <<4, 32, <<1, 1, 1, 3>>, 16>>,
           <<4, 107, <<1, 1, 2, 3>>, 32>>,
           <<4, 256, <<2, 2, 3, 4>>, 256>>,
           <<4, 1024, <<2, 2, 3, 4>>, 256>>,
           <<4, 2048, <<4, 4, 6, 8>>, 4096>>,
           <<4, 16384, <<2, 2, 3, 4>>, 256>> >>,
        << <<0, 0, <<>>, 0>>,
           <<5, 8, <<1, 1, 1, 1, 1>>, 2>>,
           <<5, 20, <<1, 1, 1, 2, 2>>, 5>>,
           <<5, 57, <<1, 1, 1, 2, 3>>, 7>>,
           <<5, 128, <<1, 1, 2, 3, 5>>, 32>>,
           <<5, 128, <<4, 4, 5, 8, 12>>, 8192>>,
           <<5, 1024, <<1, 2, 2, 3, 5>>, 64>>,
           <<5, 1024, <<4, 5, 6, 8, 16>>, 16384>> >>,
        << <<0, 0, <<>>, 0>>,
           <<0, 0, <<>>, 0>>,
           <<6, 14, <<1, 1, 1, 1, 2, 5>>, 2>>,
           <<6, 33, <<1, 1, 1, 2, 2, 4>>, 3>>,
           <<6, 64, <<1, 1, 2, 2, 3, 7>>, 15>>,
           <<6, 128, <<1, 2, 2, 2, 4, 11>>, 63>>,
           <<6, 128, <<4, 4, 5, 7, 10, 16>>, 15929>>,
           <<6, 256, <<4, 8, 8, 8, 11, 16>>, 64080>> >>,
        << <<0, 0, <<>>, 0>>,
           <<0, 0, <<>>, 0>>,
           <<7, 10, <<1, 1, 1, 2, 2, 2, 4>>, 1>>,
           <<7, 23, <<1, 1, 1, 2, 2, 2, 4>>, 1>>,
           <<7, 52, <<1, 1, 1, 2, 2, 2, 4>>, 1>>,
           <<7, 64, <<2, 2, 2, 3, 3, 4, 8>>, 59>>,
           <<7, 128, <<2, 2, 2, 3, 4, 5, 10>>, 122>>,
           <<7, 256, <<2, 2, 2, 4, 4, 7, 11>>, 251>> >>,
        << <<0, 0, <<>>, 0>>,
           <<0, 0, <<>>, 0>>,
           <<0, 0, <<>>, 0>>,
           <<8, 16, <<1, 1, 1, 2, 2, 3, 4, 6>>, 1>>,
           <<8, 32, <<1, 1, 1, 2, 2, 3, 4, 6>>, 1>>,
           <<8, 64, <<1, 1, 1, 2, 2, 3, 4, 6>>, 1>>,
           <<8, 128, <<1, 1, 1, 2, 2, 3, 4, 6>>, 1>>,
           <<8, 256, <<1, 1, 1, 2, 2, 3, 4, 6>>, 1>> >>,
        << <<0, 0, <<>>, 0>>,
           <<0, 0, <<>>, 0>>,
           <<0, 0, <<>>, 0>>,
           <<9, 11, <<1, 1, 2, 2, 2, 2, 4, 5, 8>>, 1>>,
           <<9, 21, <<1, 1, 2, 2, 2, 2, 4, 5, 8>>, 1>>,
           <<9, 32, <<2, 2, 2, 2, 2, 3, 4, 5, 10>>, 7>>,
           <<9, 74, <<1, 1, 2, 2, 2, 2, 4, 5, 8>>, 1>>,
           <<9, 64, <<2, 3, 4, 4, 4, 5, 8, 11, 16>>, 954>> >>,
        << <<0, 0, <<>>, 0>>,
           <<0, 0, <<>>, 0>>,
           <<0, 0, <<>>, 0>>,
           <<0, 0, <<>>, 0>>,
           <<10, 16, <<1, 2, 2, 2, 2, 2, 4, 4, 5, 11>>, 1>>,
           <<10, 27, <<1, 2, 2, 2, 2, 2, 4, 4, 5, 11>>, 1>>,
           <<10, 32, <<2, 2, 3, 3, 4, 4, 4, 6, 8, 16>>, 63>>,
           <<10, 64, <<2, 2, 2, 2, 3, 4, 4, 6, 8, 12>>, 16>> >>,
        << <<0, 0, <<>>, 0>>,
           <<0, 0, <<>>, 0>>,
           <<0, 0, <<>>, 0>>,
           <<0, 0, <<>>, 0>>,
           <<11, 12, <<2, 2, 2, 2, 2, 2, 3, 4, 4, 8, 12>>, 1>>,
           <<11, 20, <<2, 2, 2, 2, 2, 2, 3, 4, 4, 8, 12>>, 1>>,
           <<11, 32, <<2, 2, 2, 2, 2, 3, 4, 4, 4, 8, 12>>, 2>>,
           <<11, 56, <<2, 2, 2, 2, 2, 2, 3, 4, 4, 8, 12>>, 1>> >>,
        << <<0, 0, <<>>, 0>>,
           <<0, 0, <<>>, 0>>,
           <<0, 0, <<>>, 0>>,
           <<0, 0, <<>>, 0>>,
           <<0, 0, <<>>, 0>>,
           <<12, 15, <<2, 2, 2, 2, 2, 4, 4, 4, 4, 7, 8, 16>>, 2>>,
           <<12, 25, <<2, 2, 2, 2, 2, 2, 4, 4, 4, 7, 8, 16>>, 1>>,
           <<12, 40, <<2, 2, 2, 2, 2, 2, 4, 4, 4, 7, 8, 16>>, 1>> >>
      >>,
      <<
        << <<0, 0, <<>>, 0>>,
           <<1, 128, <<1>>, 512>>,
           <<1, 32768, <<1>>, 512>>,
           <<0, 0, <<>>, 0>>,
           <<0, 0, <<>>, 0>>,
           <<0, 0, <<>>, 0>>,
           <<0, 0, <<>>, 0>>,
           <<0, 0, <<>>, 0>> >>,
        << <<0, 0, <<>>, 0>>,
           <<2, 16, <<1, 1>>, 256>>,
           <<2, 181, <<1, 2>>, 512>>,
           <<2, 2896, <<1, 2>>, 512>>,
           <<2, 46340, <<1, 2>>, 512>>,
           <<0, 0, <<>>, 0>>,
           <<0, 0, <<>>, 0>>,
           <<0, 0, <<>>, 0>> >>,
        << <<0, 0, <<>>, 0>>,
           <<3, 9, <<1, 1, 1>>, 86>>,
           <<3, 46, <<1, 1, 2>>, 171>>,
           <<3, 292, <<1, 1, 2>>, 171>>,
           <<3, 511, <<3, 4, 8>>, 8192>>,
           <<3, 3250, <<3, 4, 8>>, 8192>>,
           <<3, 20642, <<3, 4, 8>>, 8192>>,
           <<0, 0, <<>>, 0>> >>,
        << <<0, 0, <<>>, 0>>,
           <<4, 7, <<1, 1, 1, 1>>, 22>>,
           <<4, 21, <<1, 1, 2, 2>>, 86>>,
           <<4, 64, <<1, 2, 2, 3>>, 256>>,
           <<4, 128, <<2, 3, 4, 8>>, 4096>>,
           <<4, 512, <<2, 3, 4, 8>>, 4096>>,
           <<4, 2048, <<2, 3, 4, 8>>, 4096>>,
           <<4, 8192, <<2, 3, 4, 8>>, 4096>> >>,
        << <<0, 0, <<>>, 0>>,
           <<5, 6, <<1, 1, 1, 1, 1>>, 5>>,
           <<5, 16, <<1, 1, 1, 1, 3>>, 13>>,
           <<5, 44, <<1, 1, 1, 2, 3>>, 26>>,
           <<5, 64, <<2, 2, 3, 4, 5>>, 1024>>,
           <<5, 256, <<1, 2, 2, 3, 5>>, 256>>,
           <<5, 512, <<2, 2, 3, 5, 8>>, 2048>>,
           <<5, 1024, <<3, 4, 4, 8, 10>>, 16384>> >>,
        << <<0, 0, <<>>, 0>>,
           <<0, 0, <<>>, 0>>,
           <<6, 13, <<1, 1, 1, 1, 2, 2>>, 3>>,
           <<6, 33, <<1, 1, 1, 1, 2, 2>>, 3>>,
           <<6, 64, <<1, 1, 1, 2, 2, 5>>, 15>>,
           <<6, 64, <<2, 3, 3, 4, 7, 11>>, 3943>>,
           <<6, 128, <<3, 3, 4, 6, 8, 13>>, 15975>>,
           <<6, 256, <<4, 4, 4, 8, 11, 16>>, 64080>> >>,
        << <<0, 0, <<>>, 0>>,
           <<0, 0, <<>>, 0>>,
           <<7, 10, <<1, 1, 1, 1, 1, 2, 4>>, 1>>,
           <<7, 23, <<1, 1, 1, 1, 1, 2, 4>>, 1>>,
           <<7, 32, <<1, 1, 2, 2, 3, 4, 6>>, 30>>,
           <<7, 64, <<1, 2, 2, 2, 3, 4, 6>>, 59>>,
           <<7, 128, <<1, 2, 2, 2, 3, 5, 10>>, 122>>,
           <<7, 128, <<3, 4, 4, 5, 8, 10, 16>>, 31208>> >>,
        << <<0, 0, <<>>, 0>>,
           <<0, 0, <<>>, 0>>,
           <<0, 0, <<>>, 0>>,
           <<8, 16, <<1, 1, 1, 1, 2, 2, 3, 6>>, 1>>,
           <<8, 32, <<1, 1, 1, 1, 2, 2, 3, 6>>, 1>>,
           <<8, 64, <<1, 1, 1, 1, 2, 2, 3, 6>>, 1>>,
           <<8, 128, <<1, 1, 1, 1, 2, 2, 3, 6>>, 1>>,
           <<8, 256, <<1, 1, 1, 1, 2, 2, 3, 6>>, 1>> >>,
        << <<0, 0, <<>>, 0>>,
           <<0, 0, <<>>, 0>>,
           <<0, 0, <<>>, 0>>,
           <<9, 11, <<1, 1, 1, 2, 2, 2, 3, 4, 7>>, 1>>,
           <<9, 21, <<1, 1, 1, 2, 2, 2, 3, 4, 7>>, 1>>,
           <<9, 32, <<1, 2, 2, 2, 2, 3, 3, 4, 8>>, 7>>,
           <<9, 74, <<1, 1, 1, 2, 2, 2, 3, 4, 7>>, 1>>,
           <<9, 64, <<2, 2, 3, 4, 4, 4, 7, 8, 16>>, 971>> >>,
        << <<0, 0, <<>>, 0>>,
           <<0, 0, <<>>, 0>>,
           <<0, 0, <<>>, 0>>,
           <<0, 0, <<>>, 0>>,
           <<10, 16, <<1, 1, 2, 2, 2, 2, 3, 4, 4, 9>>, 1>>,
           <<10, 27, <<1, 1, 2, 2, 2, 2, 3, 4, 4, 9>>, 1>>,
           <<10, 32, <<2, 2, 2, 2, 3, 4, 4, 6, 8, 12>>, 63>>,
           <<10, 64, <<2, 2, 2, 2, 2, 3, 4, 4, 6, 12>>, 16>> >>,
        << <<0, 0, <<>>, 0>>,
           <<0, 0, <<>>, 0>>,
           <<0, 0, <<>>, 0>>,
           <<0, 0, <<>>, 0>>,
           <<11, 12, <<1, 2, 2, 2, 2, 2, 3, 4, 4, 5, 10>>, 1>>,
           <<11, 20, <<1, 2, 2, 2, 2, 2, 3, 4, 4, 5, 10>>, 1>>,
           <<11, 32, <<1, 2, 2, 2, 2, 2, 3, 4, 4, 8, 12>>, 2>>,
           <<11, 56, <<1, 2, 2, 2, 2, 2, 3, 4, 4, 5, 10>>, 1>> >>,
        << <<0, 0, <<>>, 0>>,
           <<0, 0, <<>>, 0>>,
           <<0, 0, <<>>, 0>>,
           <<0, 0, <<>>, 0>>,
           <<0, 0, <<>>, 0>>,
           <<12, 15, <<2, 2, 2, 2, 2, 2, 3, 4, 4, 5, 8, 15>>, 2>>,
           <<12, 25, <<2, 2, 2, 2, 2, 2, 2, 4, 4, 4, 8, 14>>, 1>>,
           <<12, 40, <<2, 2, 2, 2, 2, 2, 2, 4, 4, 4, 8, 14>>, 1>> >>
      >>,
      <<
        << <<0, 0, <<>>, 0>>,
           <<1, 32, <<1>>, 2048>>,
           <<1, 8192, <<1>>, 2048>>,
           <<0, 0, <<>>, 0>>,
           <<0, 0, <<>>, 0>>,
           <<0, 0, <<>>, 0>>,
           <<0, 0, <<>>, 0>>,
           <<0, 0, <<>>, 0>> >>,
        << <<0, 0, <<>>, 0>>,
           <<2, 8, <<1, 1>>, 1024>>,
           <<2, 90, <<1, 2>>, 2048>>,
           <<2, 1448, <<1, 2>>, 2048>>,
           <<2, 23170, <<1, 2>>, 2048>>,
           <<0, 0, <<>>, 0>>,
           <<0, 0, <<>>, 0>>,
           <<0, 0, <<>>, 0>> >>,
        << <<0, 0, <<>>, 0>>,
           <<3, 5, <<1, 1, 1>>, 342>>,
           <<3, 29, <<1, 1, 2>>, 683>>,
           <<3, 184, <<1, 1, 2>>, 683>>,
           <<3, 322, <<3, 4, 8>>, 32768>>,
           <<3, 2047, <<3, 4, 8>>, 32768>>,
           <<3, 13003, <<3, 4, 8>>, 32768>>,
           <<0, 0, <<>>, 0>> >>,
        << <<0, 0, <<>>, 0>>,
           <<4, 5, <<1, 1, 1, 1>>, 86>>,
           <<4, 16, <<1, 1, 1, 3>>, 256>>,
           <<4, 64, <<1, 1, 1, 3>>, 256>>,
           <<4, 128, <<2, 2, 3, 4>>, 4096>>,
           <<4, 512, <<2, 2, 3, 4>>, 4096>>,
           <<4, 2048, <<2, 2, 3, 4>>, 4096>>,
           <<4, 8192, <<2, 2, 3, 4>>, 4096>> >>,
        << <<0, 0, <<>>, 0>>,
           <<0, 0, <<>>, 0>>,
           <<5, 13, <<1, 1, 1, 1, 2>>, 35>>,
           <<5, 33, <<1, 1, 1, 2, 3>>, 103>>,
           <<5, 64, <<1, 2, 2, 3, 5>>, 1024>>,
           <<5, 128, <<2, 2, 3, 5, 8>>, 8192>>,
           <<5, 256, <<3, 4, 4, 8, 10>>, 65536>>,
           <<5, 1024, <<2, 3, 4, 5, 8>>, 16384>> >>,
        << <<0, 0, <<>>, 0>>,
           <<0, 0, <<>>, 0>>,
           <<6, 11, <<1, 1, 1, 1, 1, 3>>, 9>>,
           <<6, 23, <<1, 1, 1, 1, 2, 5>>, 29>>,
           <<6, 60, <<1, 1, 1, 1, 2, 4>>, 23>>,
           <<6, 64, <<2, 2, 3, 4, 4, 7>>, 3823>>,
           <<6, 128, <<2, 3, 3, 4, 7, 11>>, 15770>>,
           <<6, 256, <<3, 3, 4, 6, 7, 15>>, 64512>> >>,
        << <<0, 0, <<>>, 0>>,
           <<0, 0, <<>>, 0>>,
           <<7, 10, <<1, 1, 1, 1, 1, 1, 2>>, 1>>,
           <<7, 18, <<1, 1, 1, 1, 2, 2, 4>>, 7>>,
           <<7, 32, <<1, 1, 1, 2, 2, 3, 6>>, 30>>,
           <<7, 64, <<1, 1, 2, 2, 2, 3, 6>>, 59>>,
           <<7, 128, <<1, 1, 2, 2, 3, 5, 5>>, 122>>,
           <<7, 128, <<2, 4, 4, 4, 6, 8, 13>>, 32456>> >>,
        << <<0, 0, <<>>, 0>>,
           <<0, 0, <<>>, 0>>,
           <<0, 0, <<>>, 0>>,
           <<8, 16, <<1, 1, 1, 1, 1, 2, 2, 4>>, 1>>,
           <<8, 32, <<1, 1, 1, 1, 1, 2, 2, 4>>, 1>>,
           <<8, 64, <<1, 1, 1, 1, 1, 2, 2, 4>>, 1>>,
           <<8, 128, <<1, 1, 1, 1, 1, 2, 2, 4>>, 1>>,
           <<8, 256, <<1, 1, 1, 1, 1, 2, 2, 4>>, 1>> >>,
        << <<0, 0, <<>>, 0>>,
           <<0, 0, <<>>, 0>>,
           <<0, 0, <<>>, 0>>,
           <<9, 11, <<1, 1, 1, 1, 2, 2, 2, 4, 5>>, 1>>,
           <<9, 21, <<1, 1, 1, 1, 2, 2, 2, 4, 5>>, 1>>,
           <<9, 32, <<1, 1, 2, 2, 2, 2, 3, 4, 6>>, 7>>,
           <<9, 74, <<1, 1, 1, 1, 2, 2, 2, 4, 5>>, 1>>,
           <<9, 64, <<2, 2, 2, 3, 3, 4, 6, 8, 13>>, 1015>> >>,
        << <<0, 0, <<>>, 0>>,
           <<0, 0, <<>>, 0>>,
           <<0, 0, <<>>, 0>>,
           <<0, 0, <<>>, 0>>,
           <<10, 16, <<1, 1, 1, 2, 2, 2, 2, 3, 4, 9>>, 1>>,
           <<10, 27, <<1, 1, 1, 2, 2, 2, 2, 3, 4, 9>>, 1>>,
           <<10, 32, <<2, 2, 2, 2, 2, 3, 4, 4, 6, 12>>, 63>>,
           <<10, 64, <<1, 2, 2, 2, 2, 2, 4, 4, 5, 11>>, 16>> >>,
        << <<0, 0, <<>>, 0>>,
           <<0, 0, <<>>, 0>>,
           <<0, 0, <<>>, 0>>,
           <<0, 0, <<>>, 0>>,
           <<11, 12, <<1, 1, 2, 2, 2, 2, 2, 3, 4, 6, 8>>, 1>>,
           <<11, 20, <<1, 1, 2, 2, 2, 2, 2, 3, 4, 6, 8>>, 1>>,
           <<11, 32, <<1, 1, 2, 2, 2, 2, 3, 4, 4, 6, 8>>, 2>>,
           <<11, 56, <<1, 1, 2, 2, 2, 2, 2, 3, 4, 6, 8>>, 1>> >>,
        << <<0, 0, <<>>, 0>>,
           <<0, 0, <<>>, 0>>,
           <<0, 0, <<>>, 0>>,
           <<0, 0, <<>>, 0>>,
           <<0, 0, <<>>, 0>>,
           <<12, 15, <<1, 2, 2, 2, 2, 2, 2, 4, 4, 4, 8, 14>>, 2>>,
           <<12, 25, <<1, 1, 2, 2, 2, 2, 2, 4, 4, 4, 8, 14>>, 1>>,
           <<12, 40, <<1, 1, 2, 2, 2, 2, 2, 4, 4, 4, 8, 14>>, 1>> >>
      >>,
      <<
        << <<0, 0, <<>>, 0>>,
           <<1, 16, <<1>>, 4096>>,
           <<1, 4096, <<1>>, 4096>>,
           <<0, 0, <<>>, 0>>,
           <<0, 0, <<>>, 0>>,
           <<0, 0, <<>>, 0>>,
           <<0, 0, <<>>, 0>>,
           <<0, 0, <<>>, 0>> >>,
        << <<0, 0, <<>>, 0>>,
           <<2, 4, <<1, 2>>, 4096>>,
           <<2, 64, <<1, 2>>, 4096>>,
           <<2, 1024, <<1, 2>>, 4096>>,
           <<2, 16384, <<1, 2>>, 4096>>,
           <<2, 32768, <<8, 16>>, 262144>>,
           <<0, 0, <<>>, 0>>,
           <<0, 0, <<>>, 0>> >>,
        << <<0, 0, <<>>, 0>>,
           <<3, 4, <<1, 1, 1>>, 683>>,
           <<3, 23, <<1, 1, 2>>, 1366>>,
           <<3, 146, <<1, 1, 2>>, 1366>>,
           <<3, 128, <<6, 9, 14>>, 516096>>,
           <<3, 1625, <<3, 4, 8>>, 65536>>,
           <<3, 10321, <<3, 4, 8>>, 65536>>,
           <<3, 65535, <<3, 4, 8>>, 65536>> >>,
        << <<0, 0, <<>>, 0>>,
           <<0, 0, <<>>, 0>>,
           <<4, 14, <<1, 1, 1, 2>>, 342>>,
           <<4, 45, <<1, 1, 2, 3>>, 1024>>,
           <<4, 128, <<1, 2, 3, 4>>, 4096>>,
           <<4, 256, <<3, 4, 4, 8>>, 65536>>,
           <<4, 1024, <<3, 4, 4, 8>>, 65536>>,
           <<4, 4096, <<3, 4, 4, 8>>, 65536>> >>,
        << <<0, 0, <<>>, 0>>,
           <<0, 0, <<>>, 0>>,
           <<5, 11, <<1, 1, 1, 1, 3>>, 103>>,
           <<5, 29, <<1, 1, 1, 2, 3>>, 205>>,
           <<5, 64, <<1, 1, 2, 3, 5>>, 1024>>,
           <<5, 128, <<2, 2, 3, 4, 5>>, 8192>>,
           <<5, 512, <<1, 2, 2, 3, 5>>, 2048>>,
           <<5, 512, <<4, 5, 6, 8, 16>>, 524288>> >>,
        << <<0, 0, <<>>, 0>>,
           <<0, 0, <<>>, 0>>,
           <<6, 10, <<1, 1, 1, 1, 1, 2>>, 12>>,
           <<6, 22, <<1, 1, 1, 1, 2, 3>>, 35>>,
           <<6, 56, <<1, 1, 1, 1, 2, 3>>, 35>>,
           <<6, 64, <<2, 2, 2, 3, 4, 7>>, 3823>>,
           <<6, 128, <<2, 2, 4, 4, 4, 11>>, 16020>>,
           <<6, 256, <<2, 4, 4, 4, 8, 11>>, 64080>> >>,
        << <<0, 0, <<>>, 0>>,
           <<0, 0, <<>>, 0>>,
           <<7, 10, <<1, 1, 1, 1, 1, 1, 1>>, 1>>,
           <<7, 18, <<1, 1, 1, 1, 1, 2, 4>>, 7>>,
           <<7, 32, <<1, 1, 1, 2, 2, 2, 4>>, 27>>,
           <<7, 64, <<1, 1, 1, 2, 2, 3, 6>>, 59>>,
           <<7, 128, <<1, 1, 1, 2, 3, 5, 5>>, 122>>,
           <<7, 128, <<2, 3, 4, 4, 4, 8, 13>>, 32456>> >>,
        << <<0, 0, <<>>, 0>>,
           <<0, 0, <<>>, 0>>,
           <<0, 0, <<>>, 0>>,
           <<8, 16, <<1, 1, 1, 1, 1, 1, 2, 4>>, 1>>,
           <<8, 32, <<1, 1, 1, 1, 1, 1, 2, 4>>, 1>>,
           <<8, 64, <<1, 1, 1, 1, 1, 1, 2, 4>>, 1>>,
           <<8, 128, <<1, 1, 1, 1, 1, 1, 2, 4>>, 1>>,
           <<8, 128, <<1, 2, 2, 2, 3, 3, 5, 7>>, 256>> >>,
        << <<0, 0, <<>>, 0>>,
           <<0, 0, <<>>, 0>>,
           <<0, 0, <<>>, 0>>,
           <<9, 11, <<1, 1, 1, 1, 1, 2, 2, 4, 5>>, 1>>,
           <<9, 21, <<1, 1, 1, 1, 1, 2, 2, 4, 5>>, 1>>,
           <<9, 32, <<1, 1, 1, 2, 2, 2, 3, 4, 6>>, 7>>,
           <<9, 66, <<1, 1, 1, 1, 2, 2, 2, 4, 8>>, 3>>,
           <<9, 64, <<2, 2, 2, 2, 4, 4, 4, 8, 11>>, 1018>> >>,
        << <<0, 0, <<>>, 0>>,
           <<0, 0, <<>>, 0>>,
           <<0, 0, <<>>, 0>>,
           <<0, 0, <<>>, 0>>,
           <<10, 16, <<1, 1, 1, 1, 2, 2, 2, 3, 4, 9>>, 1>>,
           <<10, 27, <<1, 1, 1, 1, 2, 2, 2, 3, 4, 9>>, 1>>,
           <<10, 48, <<1, 1, 1, 1, 2, 2, 2, 3, 4, 9>>, 1>>,
           <<10, 64, <<1, 2, 2, 2, 2, 2, 3, 4, 4, 9>>, 16>> >>,
        << <<0, 0, <<>>, 0>>,
           <<0, 0, <<>>, 0>>,
           <<0, 0, <<>>, 0>>,
           <<0, 0, <<>>, 0>>,
           <<11, 12, <<1, 1, 1, 2, 2, 2, 2, 3, 4, 6, 8>>, 1>>,
           <<11, 20, <<1, 1, 1, 2, 2, 2, 2, 3, 4, 6, 8>>, 1>>,
           <<11, 32, <<1, 1, 2, 2, 2, 2, 2, 3, 4, 6, 8>>, 2>>,
           <<11, 56, <<1, 1, 1, 2, 2, 2, 2, 3, 4, 6, 8>>, 1>> >>,
        << <<0, 0, <<>>, 0>>,
           <<0, 0, <<>>, 0>>,
           <<0, 0, <<>>, 0>>,
           <<0, 0, <<>>, 0>>,
           <<0, 0, <<>>, 0>>,
           <<12, 15, <<1, 1, 2, 2, 2, 2, 2, 4, 4, 4, 8, 14>>, 2>>,
           <<12, 25, <<1, 1, 2, 2, 2, 2, 2, 3, 4, 4, 8, 9>>, 1>>,
           <<12, 40, <<1, 1, 2, 2, 2, 2, 2, 3, 4, 4, 8, 9>>, 1>> >>
      >>,
      <<
        << <<0, 0, <<>>, 0>>,
           <<1, 9, <<1>>, 7000>>,
           <<1, 2396, <<1>>, 7000>>,
           <<0, 0, <<>>, 0>>,
           <<0, 0, <<>>, 0>>,
           <<0, 0, <<>>, 0>>,
           <<0, 0, <<>>, 0>>,
           <<0, 0, <<>>, 0>> >>,
        << <<0, 0, <<>>, 0>>,
           <<2, 4, <<1, 1>>, 3500>>,
           <<2, 48, <<1, 2>>, 7000>>,
           <<2, 783, <<1, 2>>, 7000>>,
           <<2, 12532, <<1, 2>>, 7000>>,
           <<0, 0, <<>>, 0>>,
           <<0, 0, <<>>, 0>>,
           <<0, 0, <<>>, 0>> >>,
        << <<0, 0, <<>>, 0>>,
           <<0, 0, <<>>, 0>>,
           <<3, 19, <<1, 1, 2>>, 2334>>,
           <<3, 122, <<1, 1, 2>>, 2334>>,
           <<3, 128, <<5, 8, 11>>, 513334>>,
           <<3, 512, <<8, 14, 16>>, 2090667>>,
           <<3, 8632, <<3, 4, 8>>, 112000>>,
           <<3, 54815, <<3, 4, 8>>, 112000>> >>,
        << <<0, 0, <<>>, 0>>,
           <<0, 0, <<>>, 0>>,
           <<4, 13, <<1, 1, 1, 2>>, 584>>,
           <<4, 52, <<1, 1, 1, 2>>, 584>>,
           <<4, 64, <<2, 4, 4, 7>>, 65334>>,
           <<4, 128, <<4, 7, 8, 16>>, 1045334>>,
           <<4, 512, <<4, 7, 8, 16>>, 1045334>>,
           <<4, 4260, <<2, 3, 4, 8>>, 56000>> >>,
        << <<0, 0, <<>>, 0>>,
           <<0, 0, <<>>, 0>>,
           <<5, 12, <<1, 1, 1, 1, 1>>, 59>>,
           <<5, 32, <<1, 1, 1, 1, 2>>, 117>>,
           <<5, 79, <<1, 1, 1, 2, 3>>, 350>>,
           <<5, 64, <<3, 4, 4, 7, 13>>, 254800>>,
           <<5, 128, <<4, 7, 8, 10, 16>>, 2090667>>,
           <<5, 512, <<4, 4, 5, 8, 14>>, 522667>> >>,
        << <<0, 0, <<>>, 0>>,
           <<0, 0, <<>>, 0>>,
           <<6, 9, <<1, 1, 1, 1, 1, 3>>, 30>>,
           <<6, 24, <<1, 1, 1, 1, 1, 2>>, 20>>,
           <<6, 49, <<1, 1, 1, 1, 2, 4>>, 78>>,
           <<6, 64, <<2, 2, 2, 2, 4, 6>>, 3734>>,
           <<6, 128, <<2, 2, 3, 4, 5, 7>>, 16334>>,
           <<6, 256, <<2, 3, 4, 4, 7, 10>>, 65334>> >>,
        << <<0, 0, <<>>, 0>>,
           <<0, 0, <<>>, 0>>,
           <<7, 9, <<1, 1, 1, 1, 1, 1, 2>>, 3>>,
           <<7, 20, <<1, 1, 1, 1, 1, 1, 2>>, 3>>,
           <<7, 32, <<1, 1, 1, 1, 2, 2, 5>>, 28>>,
           <<7, 64, <<1, 1, 1, 1, 2, 3, 7>>, 59>>,
           <<7, 128, <<1, 1, 1, 2, 3, 3, 5>>, 125>>,
           <<7, 128, <<2, 2, 3, 4, 5, 8, 12>>, 32000>> >>,
        << <<0, 0, <<>>, 0>>,
           <<0, 0, <<>>, 0>>,
           <<0, 0, <<>>, 0>>,
           <<8, 16, <<1, 1, 1, 1, 1, 1, 2, 2>>, 1>>,
           <<8, 32, <<1, 1, 1, 1, 1, 1, 2, 2>>, 1>>,
           <<8, 64, <<1, 1, 1, 1, 1, 1, 2, 2>>, 1>>,
           <<8, 64, <<1, 2, 2, 2, 2, 3, 4, 7>>, 234>>,
           <<8, 128, <<1, 2, 2, 2, 2, 3, 5, 6>>, 250>> >>,
        << <<0, 0, <<>>, 0>>,
           <<0, 0, <<>>, 0>>,
           <<0, 0, <<>>, 0>>,
           <<9, 11, <<1, 1, 1, 1, 1, 2, 2, 3, 4>>, 1>>,
           <<9, 21, <<1, 1, 1, 1, 1, 2, 2, 3, 4>>, 1>>,
           <<9, 32, <<1, 1, 1, 1, 2, 2, 3, 4, 7>>, 7>>,
           <<9, 74, <<1, 1, 1, 1, 1, 2, 2, 3, 4>>, 1>>,
           <<9, 64, <<2, 2, 2, 2, 3, 4, 4, 6, 11>>, 978>> >>,
        << <<0, 0, <<>>, 0>>,
           <<0, 0, <<>>, 0>>,
           <<0, 0, <<>>, 0>>,
           <<0, 0, <<>>, 0>>,
           <<10, 16, <<1, 1, 1, 1, 2, 2, 2, 2, 4, 8>>, 1>>,
           <<10, 27, <<1, 1, 1, 1, 2, 2, 2, 2, 4, 8>>, 1>>,
           <<10, 48, <<1, 1, 1, 1, 2, 2, 2, 2, 4, 8>>, 1>>,
           <<10, 64, <<1, 1, 2, 2, 2, 2, 4, 4, 4, 8>>, 16>> >>,
        << <<0, 0, <<>>, 0>>,
           <<0, 0, <<>>, 0>>,
           <<0, 0, <<>>, 0>>,
           <<0, 0, <<>>, 0>>,
           <<11, 12, <<1, 1, 1, 2, 2, 2, 2, 2, 4, 5, 8>>, 1>>,
           <<11, 20, <<1, 1, 1, 2, 2, 2, 2, 2, 4, 5, 8>>, 1>>,
           <<11, 32, <<1, 1, 1, 2, 2, 2, 2, 4, 4, 5, 8>>, 2>>,
           <<11, 56, <<1, 1, 1, 2, 2, 2, 2, 2, 4, 5, 8>>, 1>> >>,
        << <<0, 0, <<>>, 0>>,
           <<0, 0, <<>>, 0>>,
           <<0, 0, <<>>, 0>>,
           <<0, 0, <<>>, 0>>,
           <<0, 0, <<>>, 0>>,
           <<12, 15, <<1, 1, 2, 2, 2, 2, 2, 3, 4, 4, 8, 11>>, 2>>,
           <<12, 25, <<1, 1, 2, 2, 2, 2, 2, 2, 4, 4, 6, 11>>, 1>>,
           <<12, 40, <<1, 1, 2, 2, 2, 2, 2, 2, 4, 4, 6, 11>>, 1>> >>
      >>
    >>

permutation_tuple_counts == <<128, 512, 2048, 4096, 7000>>

\* What a read before the first element of a row of the table yields
OutOfBoundsRow == <<-1, -1, <<>>, -1>>

\* permutation_codecs[tuple_count_index][max_bone_count - 2][vertex_size - 1]
\* for a size_t vertex_size; vertex_size = 0 reads outside the row.
CodecRow(tuple_count_index, max_bone_count, vertex_size) ==
    IF vertex_size = 0 THEN OutOfBoundsRow
    ELSE permutation_codecs[tuple_count_index + 1][max_bone_count - 1][vertex_size]

\* entry_count of that row; oob_zero tells whether the out-of-bounds read
\* finds a zero there
EntryCountIsZero(tuple_count_index, max_bone_count, vertex_size, oob_zero) ==
    IF vertex_size = 0 THEN oob_zero
    ELSE CodecRow(tuple_count_index, max_bone_count, vertex_size)[1] = 0

\* 0x80000000 as max_tuple_count
TopBit == (-(2 ^ 30)) - (2 ^ 30)

\* a < b for two uint32_t
ULess(a, b) == IF (a < 0) = (b < 0) THEN a < b ELSE b < 0

\* (1 << n) converted to uint32_t, n <= 31
ShiftOne(n) == IF n < 31 THEN 2 ^ n ELSE TopBit

\* The result of the loop for a loop that never ends
NeverEnds == -1

LoopContinues_mutant(n, max_tuple_count) == ~ULess(max_tuple_count, ShiftOne(n))

\* (1 << tuple_index_bit_count) < params->max_tuple_count
LoopContinues(n, max_tuple_count) == ULess(ShiftOne(n), max_tuple_count)

\* while ((1 << tuple_index_bit_count) < max_tuple_count)
\*     ++tuple_index_bit_count;
\* With max_tuple_count above 0x80000000 no value of 1 << n ends the loop:
\* the values for n <= 31 are smaller, and from n = 32 on the shift is
\* undefined and yields 1 << (n % 32) (x86) or 0 (ARM).
RECURSIVE TupleIndexBitCountFrom(_, _)
TupleIndexBitCountFrom(tuple_index_bit_count, max_tuple_count) ==
    IF tuple_index_bit_count = 32 THEN NeverEnds
    ELSE IF LoopContinues(tuple_index_bit_count, max_tuple_count)
    THEN TupleIndexBitCountFrom(tuple_index_bit_count + 1, max_tuple_count)
    ELSE tuple_index_bit_count

RECURSIVE SavedBitCount(_)
SavedBitCount(n) ==
    IF n = 0 THEN 0 ELSE SavedBitCount(n - 1) + power_of_two_weight_savings[n]

\* The first class that holds max_tuple_count tuples, from 0, or -1
RECURSIVE FindTupleCountIndex(_, _)
FindTupleCountIndex(i, max_tuple_count) ==
    IF i = Len(permutation_tuple_counts) THEN -1
    ELSE IF ~ULess(permutation_tuple_counts[i + 1], max_tuple_count) THEN i
    ELSE FindTupleCountIndex(i + 1, max_tuple_count)

RECURSIVE GrowVertexSize(_, _, _, _)
GrowVertexSize(c, k, vertex_size, oob_zero) ==
    IF EntryCountIsZero(c, k, vertex_size, oob_zero) /\ vertex_size < 8
    THEN GrowVertexSize(c, k, vertex_size + 1, oob_zero)
    ELSE vertex_size

RECURSIVE ShrinkVertexSize(_, _, _, _)
ShrinkVertexSize(c, k, vertex_size, oob_zero) ==
    IF EntryCountIsZero(c, k, vertex_size, oob_zero)
    THEN ShrinkVertexSize(c, k, vertex_size - 1, oob_zero)
    ELSE vertex_size

Clamp(x, lo, hi) == IF x < lo THEN lo ELSE IF x > hi THEN hi ELSE x

\* weight_base_bit_count from the bits left for weights, clamped
WeightBaseBitCountOf(total_weight_bit_count, divisor, lo, hi) ==
    Clamp(total_weight_bit_count \div divisor, lo, hi)

FallBackToNone_mutant(p0) ==
    [p0 EXCEPT !.vertex_size = p0.max_bone_count * (4 + 2)]

\* method = none and vertex_size = max_bone_count * (sizeof(float) +
\* sizeof(uint16_t))
FallBackToNone(p0) ==
    [p0 EXCEPT !.method = "none", !.vertex_size = p0.max_bone_count * (4 + 2)]

\* Whether the call never returns
CompletionHangs(p) == TupleIndexBitCountFrom(0, p.max_tuple_count) = NeverEnds

\* The indices vertex_size - 1 with which lines 382 to 386 read
\* permutation_codecs[tuple_count_index][max_bone_count - 2]; the index for
\* vertex_size 0 (SIZE_MAX) is written -1
CodecReads(p, oob_zero) ==
    LET k == Clamp(p.max_bone_count, 2, 13)
        vs8 == IF p.vertex_size > 8 THEN 8 ELSE p.vertex_size
        tuple_count_index == FindTupleCountIndex(0, p.max_tuple_count)
    IN  IF p.method # "permutation_coding" \/ CompletionHangs(p)
            \/ tuple_count_index = -1
        THEN {}
        ELSE LET grown == GrowVertexSize(tuple_count_index, k, vs8, oob_zero)
                 vs == ShrinkVertexSize(tuple_count_index, k, grown, oob_zero)
             IN  {size - 1 : size \in (vs8 .. grown) \cup (vs .. grown)}

\* The bundle as the call leaves it; for a call that never returns, as it
\* is while the call hangs.
complete_blend_attribute_compression_parameters(p, oob_zero) ==
    LET k == Clamp(p.max_bone_count, 2, 13)
        tuple_index_bit_count == TupleIndexBitCountFrom(0, p.max_tuple_count)
        p0 == [p EXCEPT !.max_bone_count = k]
        \* We want at least one byte for weights
        vs1 == IF p.vertex_size * 8 <= tuple_index_bit_count
               THEN (tuple_index_bit_count + 15) \div 8
               ELSE p.vertex_size
        none == FallBackToNone(p0)
    IN  CASE tuple_index_bit_count = NeverEnds -> p0
          [] p.method = "unit_cube_sampling" ->
               LET total_weight_bit_count == vs1 * 8 - tuple_index_bit_count
                   wb == WeightBaseBitCountOf(total_weight_bit_count, k - 1, 2, 23)
                   total_bit_count == wb * (k - 1) + tuple_index_bit_count
               IN  [p0 EXCEPT !.weight_base_bit_count = wb,
                              !.vertex_size = (total_bit_count + 7) \div 8,
                              !.tuple_index_bit_count = tuple_index_bit_count,
                              !.max_tuple_count = ShiftOne(tuple_index_bit_count)]
          [] p.method = "power_of_two_aabb" ->
               LET total_weight_bit_count == vs1 * 8 - tuple_index_bit_count
                   saved_bit_count == SavedBitCount(k - 1)
                   wb == WeightBaseBitCountOf(total_weight_bit_count + saved_bit_count,
                                              k - 1, 2, 22)
                   total_bit_count == wb * (k - 1) - saved_bit_count
                                        + tuple_index_bit_count
               IN  [p0 EXCEPT !.weight_base_bit_count = wb,
                              !.vertex_size = (total_bit_count + 7) \div 8,
                              !.tuple_index_bit_count = tuple_index_bit_count,
                              !.max_tuple_count = ShiftOne(tuple_index_bit_count)]
          [] p.method \in { "optimal_simplex_sampling_19",
                            "optimal_simplex_sampling_22",
                            "optimal_simplex_sampling_35" } ->
               [p0 EXCEPT !.max_bone_count = 4,
                          !.vertex_size =
                              (get_optimal_simplex_sampling_bit_count(p.method)
                                 + tuple_index_bit_count + 7) \div 8,
                          !.tuple_index_bit_count = tuple_index_bit_count,
                          !.max_tuple_count = ShiftOne(tuple_index_bit_count)]
          [] p.method = "permutation_coding" ->
               LET vs8 == IF p.vertex_size > 8 THEN 8 ELSE p.vertex_size
                   tuple_count_index == FindTupleCountIndex(0, p.max_tuple_count)
               IN  IF tuple_count_index = -1
                   THEN none
                   ELSE LET grown == GrowVertexSize(tuple_count_index, k, vs8, oob_zero)
                            vs == ShrinkVertexSize(tuple_count_index, k, grown, oob_zero)
                        IN  [p0 EXCEPT !.max_tuple_count =
                                           permutation_tuple_counts[tuple_count_index + 1],
                                       !.vertex_size = vs,
                                       !.permutation_coding =
                                           CodecRow(tuple_count_index, k, vs)]
          [] p.method = "none" -> [p0 EXCEPT !.vertex_size = k * (4 + 2)]
          [] OTHER -> none

(* Specification of parameter completion                                   *)

MaxRequestBoneCount == 14
MaxRequestVertexSize == 9
MaxCompletions == 3

\* Up to 7001, and 0x40000001, 0x80000000, 0x80000001, 0xffffffff
RequestTupleCounts ==
    {0, 1, 2, 3, 4, 5, 9, 128, 129, 512, 1024, 2048, 4096, 4097, 7000, 7001,
     (2 ^ 30) + 1, TopBit, TopBit + 1, -1}

\* The fields the caller sets; the others hold zeroes
Request(method, max_bone_count, max_tuple_count, vertex_size) ==
    [ method |-> method, max_bone_count |-> max_bone_count,
      max_tuple_count |-> max_tuple_count, vertex_size |-> vertex_size,
      weight_base_bit_count |-> 0, tuple_index_bit_count |-> 0,
      permutation_coding |-> <<0, 0, <<>>, 0>> ]

Requests ==
    { Request(m, k, c, s) : m \in Methods, k \in 0 .. MaxRequestBoneCount,
                            c \in RequestTupleCounts,
                            s \in 0 .. MaxRequestVertexSize }

InitComplete ==
    /\ pc = "ready"
    /\ request \in Requests
    /\ params = request
    /\ history = <<>>
    /\ cstat = NoCall
    /\ mem = {}
    /\ mcall = NoCall
    /\ call = NoCall
    /\ out = NoCall
    /\ rcall = NoCall
    /\ rout = NoCall
    /\ oss = NoCall
    /\ vcall = NoCall

CompleteParameters ==
    /\ pc # "hung"
    /\ Len(history) < MaxCompletions
    /\ \E oob_zero \in BOOLEAN :
          /\ params' = complete_blend_attribute_compression_parameters(params, oob_zero)
          /\ cstat' = [kind |-> "complete", requested |-> params,
                       returned |-> ~CompletionHangs(params),
                       reads |-> CodecReads(params, oob_zero)]
    /\ history' = IF CompletionHangs(params) THEN history
                  ELSE Append(history, params')
    /\ pc' = IF CompletionHangs(params) THEN "hung" ELSE "done"
    /\ UNCHANGED <<mem, mcall, request, call, out, rcall, rout, oss, vcall>>

NextComplete == CompleteParameters

SpecComplete == InitComplete /\ [][NextComplete]_vars

\* C3: completing an already completed bundle changes no field.
CompletionIsIdempotent ==
    Len(history) >= 2 => history[2] = history[1]

\* C14: completion never fails: every call returns and reads
\* permutation_codecs only inside its bounds.
CompletionNeverFails ==
    cstat.kind = "complete" =>
        /\ cstat.returned
        /\ cstat.reads \subseteq (0 .. 7)

\* What holds instead: the call returns unless max_tuple_count is above
\* 0x80000000, and reads outside the table only for permutation coding
\* with vertex_size 0.
CompletionFailsOnlyAtTheEdges ==
    cstat.kind = "complete" =>
        /\ cstat.returned <=> ~ULess(TopBit, cstat.requested.max_tuple_count)
        /\ cstat.reads \subseteq (0 .. 7)
             \/ (cstat.requested.method = "permutation_coding"
                    /\ cstat.requested.vertex_size = 0)

\* The first completion of the request has been called
FirstCompletion == cstat.kind = "complete" /\ Len(history) <= 1

WeightMethods ==
    { "unit_cube_sampling", "power_of_two_aabb", "optimal_simplex_sampling_19",
      "optimal_simplex_sampling_22", "optimal_simplex_sampling_35" }

\* tuple_index_bit_count is the least t with 2^t >= the requested count
\* and max_tuple_count is 2^t
IsCeilLog2 ==
    LET t == params.tuple_index_bit_count
    IN  /\ t \in 0 .. 31
        /\ params.max_tuple_count = ShiftOne(t)
        /\ ~ULess(params.max_tuple_count, request.max_tuple_count)
        /\ t > 0 => ULess(ShiftOne(t - 1), request.max_tuple_count)

\* C15: for every method but permutation coding completion sets
\* tuple_index_bit_count to ceil(log2(max_tuple_count)) of the request and
\* max_tuple_count to 2^tuple_index_bit_count, a power of two that is at
\* least the requested value.
TupleCountIsPowerOfTwo ==
    (FirstCompletion /\ request.method # "permutation_coding") =>
        cstat.returned /\ IsCeilLog2

\* C15 as amended: that holds for unit cube sampling, power-of-two AABB
\* and optimal simplex sampling with a requested count of at most
\* 0x80000000; for method none and for a method outside the enumeration
\* both fields stay as they were; with a requested count above
\* 0x80000000 the call does not return.
TupleCountOfWeightMethods ==
    FirstCompletion =>
        /\ cstat.returned <=> ~ULess(TopBit, request.max_tuple_count)
        /\ (cstat.returned /\ request.method \in WeightMethods) => IsCeilLog2
        /\ (cstat.returned /\ request.method \in {"none", "count"}) =>
              /\ params.max_tuple_count = request.max_tuple_count
              /\ params.tuple_index_bit_count = request.tuple_index_bit_count

TupleCountWitness ==
    /\ FirstCompletion
    /\ cstat.returned
    /\ request.method = "power_of_two_aabb"
    /\ request.max_tuple_count = 4097
    /\ params.tuple_index_bit_count = 13
    /\ params.max_tuple_count = 8192

\* The request is for permutation coding with at most 7000 tuples and a
\* bone count in [2, 13]
PermutationRequest ==
    /\ request.method = "permutation_coding"
    /\ ~ULess(7000, request.max_tuple_count)
    /\ request.max_bone_count \in 2 .. 13

\* The first class (from 1) that holds the requested number of tuples
SmallestClass ==
    CHOOSE c \in 1 .. Len(permutation_tuple_counts) :
        /\ ~ULess(permutation_tuple_counts[c], request.max_tuple_count)
        /\ \A d \in 1 .. (c - 1) :
              ULess(permutation_tuple_counts[d], request.max_tuple_count)

NonEmptySizes ==
    {size \in 1 .. 8 :
        permutation_codecs[SmallestClass][request.max_bone_count - 1][size][1] # 0}

\* The smallest non-empty size from min(requested, 8) on if there is one,
\* else the largest non-empty size below
ExpectedVertexSize ==
    LET from == IF request.vertex_size > 8 THEN 8 ELSE request.vertex_size
        up == {size \in NonEmptySizes : size >= from}
        down == {size \in NonEmptySizes : size < from}
    IN  IF up # {} THEN CHOOSE size \in up : \A other \in up : size <= other
        ELSE IF down # {}
        THEN CHOOSE size \in down : \A other \in down : size >= other
        ELSE 0

PermutationCompleted ==
    /\ params.method = "permutation_coding"
    /\ params.max_bone_count = request.max_bone_count
    /\ params.max_tuple_count = permutation_tuple_counts[SmallestClass]
    /\ params.vertex_size \in NonEmptySizes
    /\ params.vertex_size = ExpectedVertexSize
    /\ params.permutation_coding =
          permutation_codecs[SmallestClass][request.max_bone_count - 1]
                            [params.vertex_size]

\* C16: for permutation coding with at most 7000 tuples requested, a bone
\* count in [2, 13] and every requested vertex_size, completion selects the
\* smallest class that holds the tuples and a vertex_size in [1, 8] whose
\* codec row is not empty and is stored in the bundle: the smallest such
\* size from min(requested, 8) on, else the largest below.
PermutationCompletionSelectsRow ==
    (FirstCompletion /\ PermutationRequest) => PermutationCompleted

\* The same for requests with a vertex_size of at least 1
PermutationCompletionFromSizeOne ==
    (FirstCompletion /\ PermutationRequest /\ request.vertex_size >= 1) =>
        PermutationCompleted

\* The request that makes completion give up the method
OversizePermutation ==
    request.method = "permutation_coding" /\ ULess(7000, request.max_tuple_count)

-----------------------------------------------------------------------------
(* Sorting and quantization of the weights of one vertex                   *)

WeightDen == 8

RECURSIVE SumSeq(_)
SumSeq(q) == IF q = <<>> THEN 0 ELSE Head(q) + SumSeq(Tail(q))

PermutationsOf(n) ==
    {f \in [1 .. n -> 1 .. n] : \A a, b \in 1 .. n : f[a] = f[b] => a = b}

\* compare_weights() on index_weight_pair_t
compare_weights(lhs, rhs) ==
    IF lhs.weight > rhs.weight THEN 1 ELSE IF lhs.weight < rhs.weight THEN -1 ELSE 0

\* The pairs of a vertex before sorting; the last weight is 1 - the others
UnsortedPairs(vertex, max_bone_count) ==
    [i \in 1 .. max_bone_count |->
        [index  |-> vertex.indices[i],
         weight |-> IF i < max_bone_count THEN vertex.weights[i]
                    ELSE WeightDen - SumSeq(SubSeq(vertex.weights, 1,
                                                   max_bone_count - 1))]]

MaxPermutedBones == 4

\* The order a sort leaves the pairs in that keeps (forward) or reverts
\* (not forward) the order of pairs with equal weights
TieOrder(pairs, n, forward) ==
    LET before(a, b) ==
            \/ compare_weights(pairs[a], pairs[b]) < 0
            \/ /\ compare_weights(pairs[a], pairs[b]) = 0
               /\ IF forward THEN a < b ELSE b < a
    IN  [pos \in 1 .. n |->
            CHOOSE a \in 1 .. n :
                Cardinality({b \in 1 .. n : before(b, a)}) = pos - 1]

\* The orders qsort() may leave the pairs in: any order that is ascending
\* in the weight (qsort() is not stable).  Above MaxPermutedBones bones
\* only the two orders of TieOrder are drawn.
PairOrders(vertex, max_bone_count) ==
    LET pairs == UnsortedPairs(vertex, max_bone_count)
    IN  IF max_bone_count <= MaxPermutedBones
        THEN {f \in PermutationsOf(max_bone_count) :
                \A a, b \in 1 .. max_bone_count :
                    a < b => compare_weights(pairs[f[a]], pairs[f[b]]) <= 0}
        ELSE {TieOrder(pairs, max_bone_count, TRUE),
              TieOrder(pairs, max_bone_count, FALSE)}

\* get_sorted_pairs(), with the outcome order of qsort()
get_sorted_pairs(vertex, max_bone_count, order) ==
    LET pairs == UnsortedPairs(vertex, max_bone_count)
    IN  [i \in 1 .. max_bone_count |-> pairs[order[i]]]

\* (uint32_t) (weight * max_value + 0.5f) for the weight n / WeightDen
quantize_weight(n, bit_count) ==
    LET max_value == (2 ^ bit_count) - 1
    IN  (2 * n * max_value + WeightDen) \div (2 * WeightDen)

quantize_half_weight(n, bit_count) ==
    LET max_value == 2 * ((2 ^ bit_count) - 1)
    IN  (2 * n * max_value + WeightDen) \div (2 * WeightDen)

\* The positions (from 1) whose weight is zero after compression and
\* decompression.  Covers the methods of CompressRequests.
flag_zero_compressed_weights(pairs, p) ==
    LET k == p.max_bone_count
        quantized(i) ==
            CASE p.method = "unit_cube_sampling" ->
                   IF i < k THEN quantize_weight(pairs[i].weight, p.weight_base_bit_count)
                   ELSE pairs[i].weight
              [] p.method = "power_of_two_aabb" ->
                   IF i < k THEN quantize_half_weight(pairs[i].weight,
                                                      p.weight_base_bit_count)
                   ELSE pairs[i].weight
              [] p.method \in {"none", "count"} -> pairs[i].weight
    IN  {i \in 1 .. k : quantized(i) <= 0}

-----------------------------------------------------------------------------
(* The per-vertex encoder                                                  *)

RECURSIVE UnitCubeInserts(_, _, _, _, _, _)
UnitCubeInserts(m, base, pairs, i, p, ub) ==
    IF i = p.max_bone_count - 1 THEN m
    ELSE LET quantized == quantize_weight(pairs[i + 1].weight, p.weight_base_bit_count)
         IN  UnitCubeInserts(
                 long_bitfield_insert(m, base, U32(quantized),
                                      i * p.weight_base_bit_count,
                                      p.weight_base_bit_count, ub),
                 base, pairs, i + 1, p, ub)

\* The loop of the power-of-two AABB case; yields the memory and next_bit
RECURSIVE PowerOfTwoInserts(_, _, _, _, _, _, _)
PowerOfTwoInserts(m, base, pairs, i, next_bit, p, ub) ==
    IF i = p.max_bone_count - 1 THEN [m |-> m, next_bit |-> next_bit]
    ELSE LET quantized == quantize_half_weight(
                              pairs[(p.max_bone_count - 2 - i) + 1].weight,
                              p.weight_base_bit_count)
             bit_count == p.weight_base_bit_count - power_of_two_weight_savings[i + 1]
         IN  PowerOfTwoInserts(
                 long_bitfield_insert(m, base, U32(quantized), next_bit, bit_count, ub),
                 base, pairs, i + 1, next_bit + bit_count, p, ub)

\* compress_vertex_blend_attributes() for the vertex at bit address base;
\* tuple_index is a uint32_t.  Covers the methods of CompressRequests.
compress_vertex_blend_attributes(m, base, pairs, tuple_index, p, ub) ==
    CASE p.method = "unit_cube_sampling" ->
           long_bitfield_insert(UnitCubeInserts(m, base, pairs, 0, p, ub), base,
                                tuple_index,
                                (p.max_bone_count - 1) * p.weight_base_bit_count,
                                p.tuple_index_bit_count, ub)
      [] p.method = "power_of_two_aabb" ->
           LET w == PowerOfTwoInserts(m, base, pairs, 0, 0, p, ub)
           IN  long_bitfield_insert(w.m, base, tuple_index, w.next_bit,
                                    p.tuple_index_bit_count, ub)
      [] p.method \in {"none", "count"} -> m

\* Bit offset of the tuple index within the payload
TupleIndexOffset(p) ==
    IF p.method = "unit_cube_sampling"
    THEN (p.max_bone_count - 1) * p.weight_base_bit_count
    ELSE (p.max_bone_count - 1) * p.weight_base_bit_count
            - SavedBitCount(p.max_bone_count - 1)

-----------------------------------------------------------------------------
(* compress_blend_attribute_buffers()                                      *)

irrelevant == 65535

\* compare_index_tuples() on two rows of long_table: compares the tuples
\* from the last entry to the first
RECURSIVE CompareFrom(_, _, _)
CompareFrom(lhs, rhs, j) ==
    IF j = 0 THEN 0
    ELSE IF lhs[j] # rhs[j] THEN (IF lhs[j] < rhs[j] THEN -1 ELSE 1)
    ELSE CompareFrom(lhs, rhs, j - 1)

compare_index_tuples_mutant(lhs, rhs) ==
    CompareFrom(Tail(lhs.tuple), Tail(rhs.tuple), lhs.length - 1)

compare_index_tuples(lhs, rhs) == CompareFrom(lhs.tuple, rhs.tuple, lhs.length)

\* The row of long_table for vertex i (from 0)
LongTableRow(i, pairs, p) ==
    LET irrelevant_mask == flag_zero_compressed_weights(pairs, p)
    IN  [vertex_index |-> i,
         length       |-> p.max_bone_count,
         tuple        |-> [j \in 1 .. p.max_bone_count |->
                              IF j \in irrelevant_mask THEN irrelevant
                              ELSE pairs[j].index]]

RowOrders_mutant(long_table) ==
    LET n == Len(long_table)
    IN  {f \in PermutationsOf(n) :
            \A a, b \in 1 .. n :
                a < b => compare_index_tuples(long_table[f[a]], long_table[f[b]]) >= 0}

\* The orders qsort() may leave the rows in
RowOrders(long_table) ==
    LET n == Len(long_table)
    IN  {f \in PermutationsOf(n) :
            \A a, b \in 1 .. n :
                a < b => compare_index_tuples(long_table[f[a]], long_table[f[b]]) <= 0}

IsSingleton(tuple, max_bone_count) ==
    \A j \in 1 .. (max_bone_count - 1) : tuple[j] = irrelevant

MatchingSuffix(representative, tuple, max_bone_count) ==
    \A j \in 1 .. max_bone_count :
        representative[j] = tuple[j] \/ tuple[j] = irrelevant

\* out_table && table_size < max_table_size
TableWriteGuard(has_table, table_size, max_table_size) ==
    has_table /\ table_size < max_table_size

\* The sweep over the sorted rows from row i (from 1) on.  st holds
\* representative, table_size, out_table, vertex_tuple_index and, for the
\* properties, the representatives found so far.
RECURSIVE Sweep(_, _, _, _, _, _)
Sweep(rows, i, st, max_bone_count, has_table, max_table_size) ==
    IF i > Len(rows) THEN st
    ELSE
      LET tuple == rows[i].tuple
          v     == rows[i].vertex_index
      IN  IF IsSingleton(tuple, max_bone_count)
          THEN Sweep(rows, i + 1,
                     [st EXCEPT !.vertex_tuple_index[v] = U32(tuple[max_bone_count])],
                     max_bone_count, has_table, max_table_size)
          ELSE IF ~MatchingSuffix(st.representative, tuple, max_bone_count)
          THEN Sweep(rows, i + 1,
                     [st EXCEPT
                        !.representative = tuple,
                        !.table = IF TableWriteGuard(has_table, st.table_size,
                                                     max_table_size)
                                  THEN [st.table EXCEPT ![st.table_size] = tuple]
                                  ELSE st.table,
                        !.table_size = st.table_size + 1,
                        !.representatives = Append(st.representatives, tuple),
                        !.vertex_tuple_index[v] = Dec32(U32(st.table_size + 1))],
                     max_bone_count, has_table, max_table_size)
          ELSE Sweep(rows, i + 1,
                     [st EXCEPT !.vertex_tuple_index[v] = Dec32(U32(st.table_size))],
                     max_bone_count, has_table, max_table_size)

\* The second pass: the payload of the vertices from i (from 0) on
RECURSIVE WriteCompressed(_, _, _, _, _, _, _)
WriteCompressed(m, i, c, sorted, vertex_tuple_index, stride, ub) ==
    IF i = c.vertex_count THEN m
    ELSE WriteCompressed(
             compress_vertex_blend_attributes(m, i * stride * 8, sorted[i + 1],
                                              vertex_tuple_index[i], c.params, ub),
             i + 1, c, sorted, vertex_tuple_index, stride, ub)

InvalidParams(p) ==
    p.method = "none" \/ p.max_bone_count < 2
        \/ p.max_bone_count > SUPPORTED_BONE_COUNT

EarlyReturn_mutant(c) ==
    [ret |-> 1, table |-> c.old_table, table_size_out |-> 0, mem |-> c.old_mem,
     mallocs |-> 1, frees |-> 1, error |-> "InvalidParams"]

\* The state left by the return 1 of the parameter check
EarlyReturn(c) ==
    [ret |-> 1, table |-> c.old_table, table_size_out |-> c.old_table_size,
     mem |-> c.old_mem, mallocs |-> 0, frees |-> 0, error |-> "InvalidParams"]

OverflowStatus_mutant(table_size, max_table_size) ==
    IF table_size > max_table_size THEN 2 ELSE 0

\* return table_size > max_table_size
OverflowStatus(table_size, max_table_size) ==
    IF table_size > max_table_size THEN 1 ELSE 0

\* c: the arguments and the old content of the outputs; nd: the outcomes
\* the C standard leaves open (the orders of both qsort() calls, the
\* content of the uninitialized representative, shifts by 32)
compress_blend_attribute_buffers(c, nd) ==
    IF InvalidParams(c.params) THEN EarlyReturn(c)
    ELSE
      LET p == c.params
          max_bone_count == p.max_bone_count
          sorted == [i \in 1 .. c.vertex_count |->
                        get_sorted_pairs(c.vertices[i], max_bone_count,
                                         nd.pair_orders[i])]
          long_table == [i \in 1 .. c.vertex_count |->
                            LongTableRow(i - 1, sorted[i], p)]
          rows == [i \in 1 .. c.vertex_count |-> long_table[nd.row_order[i]]]
          st0 == [representative     |-> nd.representative,
                  table_size         |-> 0,
                  table              |-> c.old_table,
                  representatives    |-> <<>>,
                  vertex_tuple_index |-> [v \in 0 .. (c.vertex_count - 1) |-> {}]]
          st == Sweep(rows, 1, st0, max_bone_count, c.has_table, c.max_table_size)
          ret == OverflowStatus(st.table_size, c.max_table_size)
      IN  [ret                |-> ret,
           table              |-> st.table,
           table_size_out     |-> IF c.has_table_size THEN st.table_size
                                  ELSE c.old_table_size,
           mem                |-> IF c.has_compressed
                                  THEN WriteCompressed(c.old_mem, 0, c, sorted,
                                                       st.vertex_tuple_index,
                                                       c.compressed_stride, nd.ub)
                                  ELSE c.old_mem,
           mallocs            |-> 2,
           frees              |-> 2,
           error              |-> IF ret = 0 THEN "none" ELSE "TableOverflow",
           table_size         |-> st.table_size,
           representatives    |-> st.representatives,
           vertex_tuple_index |-> st.vertex_tuple_index,
           sorted             |-> sorted,
           rows               |-> rows]

(* Specification of compress_blend_attribute_buffers()                     *)

MaxVertices == 2
MaxTableSize == 1
MaxStride == 8
TailBytes == 8

CompressBoneCounts == {2, 3}

\* The requests whose completions are compressed with: methods unit cube
\* sampling and power-of-two AABB, payloads of one byte and payloads
\* that reach into a second dword
CompressRequests ==
    { Request("unit_cube_sampling", 2, 4, 1),
      Request("unit_cube_sampling", 2, 64, 1),
      Request("unit_cube_sampling", 2, 1024, 5),
      Request("unit_cube_sampling", 3, 4, 1),
      Request("unit_cube_sampling", 3, 1024, 5),
      Request("power_of_two_aabb", 2, 64, 1),
      Request("power_of_two_aabb", 3, 4, 1) }

CompressBundles ==
    { complete_blend_attribute_compression_parameters(r, FALSE) :
        r \in CompressRequests }

\* Bundles that compress_blend_attribute_buffers() must refuse
InvalidBundles ==
    LET p == complete_blend_attribute_compression_parameters(
                 Request("unit_cube_sampling", 2, 4, 1), FALSE)
    IN  { [p EXCEPT !.method = "none"],
          [p EXCEPT !.max_bone_count = 1],
          [p EXCEPT !.max_bone_count = SUPPORTED_BONE_COUNT + 1] }

\* Number of bones per vertex in the arrays handed in with bundle p
ArrayBoneCount(p) ==
    IF p.max_bone_count \in CompressBoneCounts THEN p.max_bone_count ELSE 2

\* Vertices: bone indices and the stored weights (all but the last)
SampleVertices(k) ==
    IF k = 2
    THEN { [indices |-> ix, weights |-> <<w>>] :
             ix \in {<<5, 6>>, <<5, 300>>}, w \in {0, 1, 4} }
    ELSE { [indices |-> ix, weights |-> w] :
             ix \in {<<5, 6, 7>>, <<9, 6, 7>>},
             w \in {<<0, 0>>, <<0, 3>>, <<1, 3>>} }

\* A vertex together with an order qsort() may leave its pairs in
CompressSamples(k) ==
    UNION { { [vertex |-> v, order |-> o] : o \in PairOrders(v, k) } :
            v \in SampleVertices(k) }

\* What the uninitialized representative may hold: zeroes or the tuple a
\* previous call left on the stack
StaleRepresentatives(k) ==
    IF k = 2 THEN {<<0, 0>>, <<5, 6>>} ELSE {<<0, 0, 0>>, <<5, 6, 7>>}

CompressedBits == (MaxVertices * MaxStride + TailBytes) * 8

CompressedPatterns == { {}, 0 .. (CompressedBits - 1) }

OldTable(k) == [r \in 0 .. MaxVertices |-> [j \in 1 .. k |-> 0]]

InitCompress ==
    /\ pc = "ready"
    /\ mem \in CompressedPatterns
    /\ mcall = NoCall
    /\ params = NoCall
    /\ request = NoCall
    /\ history = <<>>
    /\ cstat = NoCall
    /\ call = NoCall
    /\ out = NoCall
    /\ rcall = NoCall
    /\ rout = NoCall
    /\ oss = NoCall
    /\ vcall = NoCall

CompressBlendAttributeBuffers ==
    /\ pc = "ready"
    /\ \E p \in CompressBundles \cup InvalidBundles,
          n \in 0 .. MaxVertices,
          max_table_size \in 0 .. MaxTableSize,
          layout \in {"null", "tight", "wide"} :
        \* without outputs the old content of out_compressed is of no account
        (layout = "null" => mem = {}) /\
        LET k == ArrayBoneCount(p) IN
        \* no bit count of these bundles but a tuple_index_bit_count of 32
        \* would shift by 32
        \E ub \in (IF p.tuple_index_bit_count = 32 THEN ShiftUB ELSE {{}}),
           samples \in [1 .. n -> CompressSamples(k)],
           representative \in StaleRepresentatives(k) :
        LET vertices == [i \in 1 .. n |-> samples[i].vertex]
            pair_orders == [i \in 1 .. n |-> samples[i].order]
            sorted == [i \in 1 .. n |->
                          get_sorted_pairs(vertices[i], k, pair_orders[i])]
            long_table == [i \in 1 .. n |-> LongTableRow(i - 1, sorted[i],
                                               [p EXCEPT !.max_bone_count = k])]
        IN
        \E row_order \in RowOrders(long_table) :
        LET c == [kind |-> "compress", params |-> p, vertex_count |-> n,
                  vertices |-> vertices, max_table_size |-> max_table_size,
                  compressed_stride |-> IF layout = "wide" THEN MaxStride
                                        ELSE IF InvalidParams(p) THEN 1
                                        ELSE p.vertex_size,
                  has_table |-> layout # "null", has_table_size |-> TRUE,
                  has_compressed |-> layout # "null",
                  old_table |-> OldTable(k), old_table_size |-> 77,
                  old_mem |-> mem,
                  nd |-> [pair_orders |-> pair_orders, row_order |-> row_order,
                          representative |-> representative, ub |-> ub]]
        IN  /\ call' = c
            /\ out' = compress_blend_attribute_buffers(c, c.nd)
            /\ mem' = out'.mem
    /\ pc' = "done"
    /\ UNCHANGED <<mcall, params, request, history, cstat, rcall, rout, oss, vcall>>

NextCompress == CompressBlendAttributeBuffers

SpecCompress == InitCompress /\ [][NextCompress]_vars

Compressed == pc = "done" /\ ~InvalidParams(call.params)

\* The effective tuple of vertex v (from 0): the bone indices sorted by
\* weight with the sentinel where the weight compresses to zero
EffectiveTuple(v) == LongTableRow(v, out.sorted[v + 1], call.params).tuple

VertexIds == 0 .. (call.vertex_count - 1)

\* The bits of out_compressed that belong to the payload of some vertex
PayloadBits ==
    UNION { (v * call.compressed_stride * 8) ..
            (v * call.compressed_stride * 8 + call.params.vertex_size * 8 - 1) :
            v \in VertexIds }

\* C2: compress_blend_attribute_buffers changes only the vertex_size bytes
\* of each vertex: every byte of out_compressed between vertex_size and
\* compressed_stride and after the last payload keeps its value.
OnlyPayloadBytesChange ==
    (Compressed /\ call.has_compressed) =>
        \A b \in (0 .. (CompressedBits - 1)) \ PayloadBits :
            (b \in out.mem) <=> (b \in call.old_mem)

\* C4: after success, the table row at the tuple index of a vertex whose
\* effective tuple is no singleton equals that tuple at every position
\* that is not the sentinel.
TupleTableCoverage ==
    (Compressed /\ call.has_table /\ out.ret = 0) =>
        \A v \in VertexIds :
            ~IsSingleton(EffectiveTuple(v), call.params.max_bone_count) =>
                \E r \in 0 .. (out.table_size - 1) :
                    /\ out.vertex_tuple_index[v] = U32(r)
                    /\ \A j \in 1 .. call.params.max_bone_count :
                          EffectiveTuple(v)[j] # irrelevant
                              => out.table[r][j] = EffectiveTuple(v)[j]

\* The number of representatives the sweep finds for the rows in order f
SweepCount(f) ==
    Sweep([i \in 1 .. call.vertex_count |-> out.rows[f[i]]], 1,
          [representative |-> call.nd.representative, table_size |-> 0,
           table |-> call.old_table, representatives |-> <<>>,
           vertex_tuple_index |-> [v \in VertexIds |-> {}]],
          call.params.max_bone_count, FALSE, 0).table_size

\* C5: sweeping the rows in the order of compare_index_tuples yields at
\* most as many representatives as sweeping them in any other order.
TupleTableMinimality ==
    Compressed =>
        \A f \in PermutationsOf(call.vertex_count) :
            out.table_size <= SweepCount(f)

\* C6: a vertex whose effective tuple is a singleton gets no table row and
\* the tuple-index field of its payload holds the surviving bone id.
SingletonRule ==
    (Compressed /\ call.has_compressed) =>
        /\ \A r \in 1 .. Len(out.representatives) :
              ~IsSingleton(out.representatives[r], call.params.max_bone_count)
        /\ \A v \in VertexIds :
              IsSingleton(EffectiveTuple(v), call.params.max_bone_count) =>
                  ExtractBits(out.mem, v * call.compressed_stride * 8,
                              TupleIndexOffset(call.params),
                              call.params.tuple_index_bit_count)
                    = U32(out.sorted[v + 1][call.params.max_bone_count].index)

\* The representatives the table needs for the sorted rows: the first row
\* of every run of compatible rows that are no singletons
RECURSIVE RequiredTable(_, _, _, _)
RequiredTable(rows, i, found, max_bone_count) ==
    IF i > Len(rows) THEN found
    ELSE IF IsSingleton(rows[i].tuple, max_bone_count)
    THEN RequiredTable(rows, i + 1, found, max_bone_count)
    ELSE IF found # <<>>
            /\ MatchingSuffix(found[Len(found)], rows[i].tuple, max_bone_count)
    THEN RequiredTable(rows, i + 1, found, max_bone_count)
    ELSE RequiredTable(rows, i + 1, Append(found, rows[i].tuple), max_bone_count)

Required == RequiredTable(out.rows, 1, <<>>, call.params.max_bone_count)

\* C7: the overflow failure is returned exactly when the required table
\* size exceeds max_table_size; then out_table holds the first
\* max_table_size representatives and no further row, *out_table_size the
\* full required size, and every vertex has its payload.
TableOverflowContract ==
    (Compressed /\ call.has_table /\ call.has_compressed) =>
        /\ (out.ret # 0) <=> (Len(Required) > call.max_table_size)
        /\ out.ret # 0 =>
              /\ \A r \in 0 .. MaxVertices :
                    out.table[r] = IF r < call.max_table_size
                                   THEN Required[r + 1]
                                   ELSE call.old_table[r]
              /\ out.table_size_out = Len(Required)
              /\ out.mem = WriteCompressed(call.old_mem, 0, call, out.sorted,
                                           out.vertex_tuple_index,
                                           call.compressed_stride, call.nd.ub)

\* The same contract in terms of the table size the sweep computed
TableOverflowOfComputedSize ==
    (Compressed /\ call.has_table) =>
        /\ (out.ret # 0) <=> (out.table_size > call.max_table_size)
        /\ \A r \in 0 .. MaxVertices :
              out.table[r] = IF r < call.max_table_size /\ r < out.table_size
                             THEN out.representatives[r + 1]
                             ELSE call.old_table[r]
        /\ out.table_size_out = out.table_size

\* C8: the value returned for a table overflow differs from the value
\* returned for invalid parameters.
OverflowStatusDiffersFromInvalidParams ==
    (Compressed /\ out.table_size > call.max_table_size) =>
        out.ret # EarlyReturn(call).ret

\* C8 as amended: the status is 1 for invalid parameters as well as for a
\* computed table size above max_table_size, and 0 otherwise.
StatusIsZeroOrOne ==
    pc = "done" =>
        out.ret = IF InvalidParams(call.params) THEN 1
                  ELSE IF out.table_size > call.max_table_size THEN 1
                  ELSE 0

StatusWitness ==
    /\ Compressed
    /\ out.table_size > call.max_table_size
    /\ out.ret = 1

\* C9: with method none or max_bone_count outside [2, 13] the call fails
\* before it starts: it returns failure, leaves out_table, *out_table_size
\* and out_compressed as they were and allocates nothing.
InvalidParamsFailBeforeStart ==
    (pc = "done" /\ InvalidParams(call.params)) =>
        /\ out.ret # 0
        /\ out.table = call.old_table
        /\ out.table_size_out = call.old_table_size
        /\ out.mem = call.old_mem
        /\ out.mallocs = 0

InvalidParamsWitness ==
    /\ pc = "done"
    /\ InvalidParams(call.params)
    /\ call.vertex_count > 0
    /\ call.has_table /\ call.has_compressed
    /\ out.ret = 1

-----------------------------------------------------------------------------
(* reduce_bone_count()                                                     *)
(* Bone indices live in an array of uint16_t cells; strides count cells.   *)
(* indices starts at cell 0, out_indices at cell out_base, which is 0 when *)
(* the caller passes the same buffer.  A reduced weight is the pair        *)
(* <<n, s>> for the quotient n / s of two weights.                         *)

ReduceInvalid_mutant(out_max_bone_count, max_bone_count) ==
    \/ out_max_bone_count > max_bone_count
    \/ out_max_bone_count < 2
    \/ max_bone_count >= SUPPORTED_BONE_COUNT

ReduceInvalid(out_max_bone_count, max_bone_count) ==
    \/ out_max_bone_count > max_bone_count
    \/ out_max_bone_count < 2
    \/ max_bone_count > SUPPORTED_BONE_COUNT

NewBegin_mutant(c) == 0

\* new_begin: the first of the sorted pairs that is retained
NewBegin(c) == c.max_bone_count - c.out_max_bone_count

VertexIndicesBase_mutant(c, i) == c.out_base + (i + 1) * c.out_index_stride

\* vertex_indices: the cell of out_indices where the indices of vertex i
\* (from 0) start; cells are uint16_t, out_base is where out_indices starts
VertexIndicesBase(c, i) == c.out_base + i * c.out_index_stride

\* The loop over the vertices from i (from 0) on; st holds the index cells
\* and the cells of out_weights
RECURSIVE ReduceLoop(_, _, _)
ReduceLoop(i, st, c) ==
    IF i = c.vertex_count THEN st
    ELSE
      LET k == c.max_bone_count
          vertex == [indices |-> [j \in 1 .. k |->
                                     st.cells[i * c.index_stride + (j - 1)]],
                     weights |-> c.weights[i + 1]]
          pairs == get_sorted_pairs(vertex, k, c.pair_orders[i + 1])
          new_begin == NewBegin(c)
          skip_last_weight == IF c.write_last_weight THEN 0 ELSE 1
          weight_sum == SumSeq([j \in 1 .. c.out_max_bone_count |->
                                   pairs[new_begin + j].weight])
          ibase == VertexIndicesBase(c, i)
          wbase == i * c.out_weight_stride
          cells == [a \in DOMAIN st.cells |->
                       IF a >= ibase /\ a < ibase + c.out_max_bone_count
                       THEN pairs[new_begin + (a - ibase) + 1].index
                       ELSE st.cells[a]]
          wcells == [a \in DOMAIN st.wcells |->
                        IF a >= wbase
                            /\ (a - wbase) + skip_last_weight < c.out_max_bone_count
                        THEN <<pairs[new_begin + (a - wbase) + 1].weight, weight_sum>>
                        ELSE st.wcells[a]]
      IN  ReduceLoop(i + 1, [cells |-> cells, wcells |-> wcells], c)

reduce_bone_count(c) ==
    IF ReduceInvalid(c.out_max_bone_count, c.max_bone_count)
    THEN [ret |-> 1, cells |-> c.old_cells, wcells |-> c.old_wcells]
    ELSE LET st == ReduceLoop(0, [cells |-> c.old_cells, wcells |-> c.old_wcells], c)
         IN  [ret |-> 0, cells |-> st.cells, wcells |-> st.wcells]

(* Specification of reduce_bone_count()                                    *)

MaxReduceVertices == 2
MaxReduceBones == 4

ReduceBoneCounts ==
    (0 .. MaxReduceBones) \cup {SUPPORTED_BONE_COUNT, SUPPORTED_BONE_COUNT + 1}

\* Number of bones per vertex in the arrays handed in
ReduceArrayBones(max_bone_count) ==
    IF max_bone_count < 2 THEN 2
    ELSE IF max_bone_count > SUPPORTED_BONE_COUNT THEN SUPPORTED_BONE_COUNT
    ELSE max_bone_count

\* Vertices with k bones: the stored weights 3/8, 1/8, 0, ... or
\* 2/8, 2/8, 0, ... and ascending or descending bone ids
ReduceVertices(k) ==
    { [indices |-> [j \in 1 .. k |-> IF up THEN 10 + j ELSE 40 - j],
       weights |-> [j \in 1 .. (k - 1) |->
                       IF j = 1 THEN w[1] ELSE IF j = 2 THEN w[2] ELSE 0]] :
        up \in BOOLEAN, w \in {<<3, 1>>, <<2, 2>>} }

\* A vertex together with an order qsort() may leave its pairs in
ReduceSamples(k) ==
    UNION { { [vertex |-> v, order |-> o] : o \in PairOrders(v, k) } :
            v \in ReduceVertices(k) }

ReduceRegion == MaxReduceVertices * (SUPPORTED_BONE_COUNT + 1)

InitReduce ==
    /\ pc = "ready"
    /\ mem = {}
    /\ mcall = NoCall
    /\ params = NoCall
    /\ request = NoCall
    /\ history = <<>>
    /\ cstat = NoCall
    /\ call = NoCall
    /\ out = NoCall
    /\ rcall = NoCall
    /\ rout = NoCall
    /\ oss = NoCall
    /\ vcall = NoCall

ReduceBoneCount ==
    /\ pc = "ready"
    /\ \E max_bone_count \in ReduceBoneCounts,
          out_max_bone_count \in ReduceBoneCounts,
          n \in 0 .. MaxReduceVertices,
          write_last_weight \in BOOLEAN,
          layout \in {"separate", "in_place", "in_place_padded"} :
        LET k == ReduceArrayBones(max_bone_count)
            index_stride == IF layout = "in_place_padded" THEN k + 1 ELSE k
        IN
        \E samples \in [1 .. n -> ReduceSamples(k)] :
        LET c == [kind |-> "reduce",
                  max_bone_count |-> max_bone_count,
                  out_max_bone_count |-> out_max_bone_count,
                  vertex_count |-> n,
                  write_last_weight |-> write_last_weight,
                  index_stride |-> index_stride,
                  out_index_stride |-> IF out_max_bone_count < index_stride
                                       THEN out_max_bone_count ELSE index_stride,
                  out_weight_stride |-> SUPPORTED_BONE_COUNT + 1,
                  out_base |-> IF layout = "separate" THEN ReduceRegion ELSE 0,
                  weights |-> [i \in 1 .. n |-> samples[i].vertex.weights],
                  pair_orders |-> [i \in 1 .. n |-> samples[i].order],
                  old_cells |-> [a \in 0 .. (2 * ReduceRegion - 1) |->
                                    IF a < n * index_stride
                                        /\ (a % index_stride) < k
                                    THEN samples[(a \div index_stride) + 1]
                                             .vertex.indices[(a % index_stride) + 1]
                                    ELSE 0],
                  old_wcells |-> [a \in 0 .. (ReduceRegion - 1) |-> <<0, 0>>]]
        IN  /\ rcall' = c
            /\ rout' = reduce_bone_count(c)
    /\ pc' = "done"
    /\ UNCHANGED <<mem, mcall, params, request, history, cstat, call, out, oss, vcall>>

NextReduce == ReduceBoneCount

SpecReduce == InitReduce /\ [][NextReduce]_vars

\* C10: reduce_bone_count fails exactly when out_max_bone_count >
\* max_bone_count or max_bone_count > 13 or out_max_bone_count < 2, then
\* writes nothing to out_indices or out_weights, and returns 0 otherwise.
ReduceFailsExactlyOnInvalidCounts ==
    pc = "done" =>
        LET invalid == \/ rcall.out_max_bone_count > rcall.max_bone_count
                       \/ rcall.max_bone_count > 13
                       \/ rcall.out_max_bone_count < 2
        IN  /\ invalid => /\ rout.ret # 0
                          /\ rout.cells = rcall.old_cells
                          /\ rout.wcells = rcall.old_wcells
            /\ ~invalid => rout.ret = 0

ReduceFailureWitness ==
    /\ pc = "done"
    /\ rout.ret # 0
    /\ rcall.vertex_count > 0
    /\ rcall.max_bone_count = 13
    /\ rcall.out_max_bone_count = 14

ReduceSuccessWitness ==
    /\ pc = "done"
    /\ rout.ret = 0
    /\ rcall.max_bone_count = 13
    /\ rcall.vertex_count > 0
    /\ rout.cells # rcall.old_cells
    /\ rout.wcells # rcall.old_wcells

-----------------------------------------------------------------------------
(* Properties of the output of reduce_bone_count()                         *)

Reduced == pc = "done" /\ rout.ret = 0

\* The pairs of vertex i (from 1) as the caller handed them in
ReduceInput(i) ==
    UnsortedPairs([indices |-> [j \in 1 .. rcall.max_bone_count |->
                                   rcall.old_cells[(i - 1) * rcall.index_stride
                                                   + (j - 1)]],
                   weights |-> rcall.weights[i]],
                  rcall.max_bone_count)

\* Output index j (from 1) and output weight cell j of vertex i (from 1)
OutIndex(i, j) ==
    rout.cells[rcall.out_base + (i - 1) * rcall.out_index_stride + (j - 1)]

OutWeight(i, j) == rout.wcells[(i - 1) * rcall.out_weight_stride + (j - 1)]

OldOutWeight(i, j) ==
    rcall.old_wcells[(i - 1) * rcall.out_weight_stride + (j - 1)]

\* The input position whose bone id is output index j (the bone ids of a
\* vertex are distinct), 0 if there is none
Retained(i, j) ==
    IF \E q \in 1 .. rcall.max_bone_count : ReduceInput(i)[q].index = OutIndex(i, j)
    THEN CHOOSE q \in 1 .. rcall.max_bone_count :
             ReduceInput(i)[q].index = OutIndex(i, j)
    ELSE 0

RetainedWeight(i, j) == ReduceInput(i)[Retained(i, j)].weight

RetainedSum(i) ==
    SumSeq([j \in 1 .. rcall.out_max_bone_count |-> RetainedWeight(i, j)])

\* Number of weights the call writes per vertex
WrittenWeights ==
    IF rcall.write_last_weight THEN rcall.out_max_bone_count
    ELSE rcall.out_max_bone_count - 1

\* C11: the output indices are the bone ids of the out_max_bone_count
\* influences with the largest weights, in order of non-decreasing weight,
\* and the weights written are those weights divided by their sum.
ReduceKeepsLargestInfluences ==
    Reduced =>
        \A i \in 1 .. rcall.vertex_count :
            LET ks == 1 .. rcall.out_max_bone_count
                kept == {Retained(i, j) : j \in ks}
            IN  /\ \A j \in ks : Retained(i, j) # 0
                /\ Cardinality(kept) = rcall.out_max_bone_count
                /\ \A a, b \in ks :
                      a < b => RetainedWeight(i, a) <= RetainedWeight(i, b)
                /\ \A q \in (1 .. rcall.max_bone_count) \ kept : \A j \in ks :
                      ReduceInput(i)[q].weight <= RetainedWeight(i, j)
                /\ RetainedSum(i) > 0
                /\ \A j \in 1 .. WrittenWeights :
                      OutWeight(i, j) = <<RetainedWeight(i, j), RetainedSum(i)>>

\* A call that drops influences of a vertex with distinct weights
ReduceKeepsLargestWitness ==
    /\ Reduced
    /\ rcall.vertex_count >= 1
    /\ rcall.out_max_bone_count < rcall.max_bone_count
    /\ rcall.write_last_weight
    /\ RetainedWeight(1, 1) < RetainedWeight(1, rcall.out_max_bone_count)
    /\ \E q \in 1 .. rcall.max_bone_count :
          /\ ReduceInput(1)[q].weight > 0
          /\ \A j \in 1 .. rcall.out_max_bone_count : Retained(1, j) # q
    /\ RetainedSum(1) < WeightDen

\* C12: without write_last_weight exactly out_max_bone_count - 1 weights
\* are written per vertex and the retained weight left unwritten is the
\* smallest of the retained weights; with write_last_weight all
\* out_max_bone_count weights are written.
UnwrittenWeightIsSmallest ==
    Reduced =>
        \A i \in 1 .. rcall.vertex_count :
            /\ \A j \in 1 .. WrittenWeights : OutWeight(i, j) # OldOutWeight(i, j)
            /\ \A j \in (WrittenWeights + 1) .. rcall.out_weight_stride :
                  OutWeight(i, j) = OldOutWeight(i, j)
            /\ ~rcall.write_last_weight =>
                  \A j \in 1 .. rcall.out_max_bone_count :
                      RetainedWeight(i, rcall.out_max_bone_count)
                          <= RetainedWeight(i, j)

\* The count of weights written, and the weight left unwritten being the
\* largest of the retained weights
UnwrittenWeightIsLargest ==
    Reduced =>
        \A i \in 1 .. rcall.vertex_count :
            /\ \A j \in 1 .. WrittenWeights : OutWeight(i, j) # OldOutWeight(i, j)
            /\ \A j \in (WrittenWeights + 1) .. rcall.out_weight_stride :
                  OutWeight(i, j) = OldOutWeight(i, j)
            /\ ~rcall.write_last_weight =>
                  \A j \in 1 .. rcall.out_max_bone_count :
                      RetainedWeight(i, rcall.out_max_bone_count)
                          >= RetainedWeight(i, j)

\* The same call with out_indices in a buffer of its own
SeparateRun == reduce_bone_count([rcall EXCEPT !.out_base = ReduceRegion])

\* C13: with out_indices equal to indices and out_index_stride <=
\* index_stride every vertex gets the output indices that a run with a
\* separate output buffer gives it.
InPlaceEqualsSeparate ==
    (Reduced /\ rcall.out_base = 0
        /\ rcall.out_index_stride <= rcall.index_stride) =>
        \A i \in 1 .. rcall.vertex_count :
            \A j \in 1 .. rcall.out_max_bone_count :
                OutIndex(i, j)
                  = SeparateRun.cells[ReduceRegion
                                      + (i - 1) * rcall.out_index_stride + (j - 1)]

\* An in-place call that moves the indices of the second vertex to cells
\* in front of its input
InPlaceWitness ==
    /\ Reduced
    /\ rcall.out_base = 0
    /\ rcall.vertex_count >= 2
    /\ rcall.out_index_stride < rcall.index_stride
    /\ rout.cells # rcall.old_cells

(***************************************************************************)
(* Optimal simplex sampling for four weights (vbac_compression.c)          *)
(*                                                                         *)
(* Representation.  A uint64_t that can exceed 31 bits is a pair           *)
(* <<high, low>> standing for high * Limb + low with low in 0..Limb-1; a   *)
(* negative high part stands for a value that wrapped around 2^64.  A      *)
(* weight is an integer count of SubSteps-th parts of the grid step        *)
(* info.scale, so that x / info.scale + .5 is (x + SubSteps/2) / SubSteps  *)
(* and the rounding by truncation is an integer division.                  *)
(***************************************************************************)
Limb == 32768

Wide(n) == <<n \div Limb, n % Limb>>

WideAdd(x, y) ==
    LET low == x[2] + y[2]
    IN  <<x[1] + y[1] + (low \div Limb), low % Limb>>

\* x - y on uint64_t; below zero the high part turns negative
WideSub(x, y) ==
    LET low == (x[2] - y[2]) + Limb
    IN  <<(x[1] - y[1] - 1) + (low \div Limb), low % Limb>>

\* x < y on uint64_t
WideLess(x, y) ==
    IF (x[1] < 0) = (y[1] < 0)
    THEN x[1] < y[1] \/ (x[1] = y[1] /\ x[2] < y[2])
    ELSE y[1] < 0

\* a * n for a < Limb
WideTimes(a, n) ==
    LET low == a * (n % Limb)
    IN  <<a * (n \div Limb) + (low \div Limb), low % Limb>>

\* a * w for a small a and a pair w
WideScale(a, w) ==
    LET low == a * w[2]
    IN  <<a * w[1] + (low \div Limb), low % Limb>>

\* the pair as one integer, where it has at most 30 bits
Narrow(w) == w[1] * Limb + w[2]

\* the set bits of the pair, of a value below 2^46
WideBits(w) ==
    {b \in 0 .. 14 : (w[2] \div (2 ^ b)) % 2 = 1}
        \cup {15 + b : b \in {c \in 0 .. 30 : (w[1] \div (2 ^ c)) % 2 = 1}}

\* a wrapped uint64_t beyond every value the grids in the table reach
Huge == <<-1, 0>>

\* oss_LUT_N[B] is element B + 1
oss_LUT_N ==
    <<0, 1, 2, 3, 5, 6, 9, 11, 15, 19, 24, 31, 40, 51, 65, 82, 104, 131, 166,
      209, 264, 333, 421, 531, 669, 843, 1063, 1340, 1689, 2128, 2682, 3379,
      4258, 5365, 6760, 8518, 10733, 13523, 17038, 21467, 27047, 34078, 42936,
      54097, 68158, 85874, 108196, 136318, 171751, 216393, 272639, 343504,
      432788, 545279, 687010, 865578, 1090561, 1374021, 1731159, 2181124,
      2748045, 3462320, 432788, 5496091, 6924641>>

\* (uint64_t) of the double num / den: truncation towards zero; the model
\* only converts values above -1
Trunc(num, den) == IF num < 0 THEN 0 ELSE num \div den

minU64(a, b) == IF a < b THEN a ELSE b

oss_baseIdx3(ic, n) ==
    LET a == (2 * n - 3 * ic) + 1
        a2 == a * a
        r == a2 % 12
    IN  (a2 \div 12) + (IF r >= 6 THEN 1 ELSE 0)

\* the least r in low .. high with r * r >= x
RECURSIVE LeastSquareAbove(_, _, _)
LeastSquareAbove(x, low, high) ==
    IF low >= high THEN high
    ELSE LET mid == (low + high) \div 2
         IN  IF mid * mid >= x THEN LeastSquareAbove(x, low, mid)
             ELSE LeastSquareAbove(x, mid + 1, high)

\* sqrt(x) rounded up, for x <= top * top
CeilSqrt(x, top) == LeastSquareAbove(x, 0, top)

\* a result outside the grid: an index that wrapped around 2^64
OffGrid == -1

OffGridTuple == <<OffGrid, OffGrid, OffGrid>>

oss_solveForI3(I, n) ==
    LET X == oss_baseIdx3(0, n) - I
        a == Trunc((2 * n + 1) - CeilSqrt(12 * X, 2 * n + 2), 1)
        ic == a \div 3
        lower == oss_baseIdx3(ic, n)
        upper == oss_baseIdx3(ic + 1, n)
        id == (ic - (IF X > lower THEN 1 ELSE 0)) + (IF X <= upper THEN 1 ELSE 0)
    IN  IF I < 0 \/ X < 0 \/ id < 0 THEN OffGrid ELSE id

\* a = 2 * id - n - 1 is negative in every call with id on the grid, where
\* a * a and b = 3 - 2 * a are the plain integers; for a >= 2 b wraps
oss_baseIdx4(id, n) ==
    LET a == (2 * id - n) - 1
        a2 == (a * a) \div 36
        a2r == (a * a) % 36
        b == 3 - 2 * a
    IN  IF a <= 1
        THEN WideAdd(WideTimes(b, a2), Wide((a2r * b + 18) \div 36))
        ELSE IF a = 2 THEN Wide(0) ELSE Huge

\* m * m * m - 3 * m: the least b with cbrt(b) + 1 / cbrt(b) >= m, m >= 3
CubeBound(m) == WideSub(WideTimes(m, m * m), Wide(3 * m))

\* the largest m in low .. high with CubeBound(m) <= b, low being one
RECURSIVE LargestCubeBelow(_, _, _)
LargestCubeBelow(b, low, high) ==
    IF low >= high THEN low
    ELSE LET mid == ((low + high) + 1) \div 2
         IN  IF WideLess(b, CubeBound(mid)) THEN LargestCubeBelow(b, low, mid - 1)
             ELSE LargestCubeBelow(b, mid, high)

\* (int64_t) f for f = cr + 1. / cr, cr = pow(b, 1. / 3.), b >= 2: the largest
\* m with CubeBound(m) <= b.  Where b = CubeBound(m) exactly, f exceeds m by
\* less than the rounding error of pow, and m - 1 comes out when pow rounds
\* down.
FloorF(b, top, rounds_down) ==
    LET m == LargestCubeBelow(b, 2, top)
    IN  IF rounds_down /\ m > 2 /\ b = CubeBound(m) THEN m - 1 ELSE m

\* X = 0 makes 1. / cr infinite and its conversion to int64_t undefined:
\* undefined_id is what comes out
oss_solveForI4(I, n, MI4, rounds_down, undefined_id) ==
    LET X == WideSub(MI4, I)
        f == FloorF(WideScale(144, X), 2 * n + 4, rounds_down)
        id == ((2 * n + 3) - f) \div 4
        lower == oss_baseIdx4(id, n)
        k == id - (IF WideLess(lower, X) THEN 1 ELSE 0)
    IN  IF X = Wide(0) THEN undefined_id
        ELSE IF X[1] < 0 \/ (2 * n + 3) - f < 0 \/ k < 0 THEN OffGrid
        ELSE k

\* (N*N+N+1)/3ull - oss_baseIdx3(j, N)
DecoderRowOffset(N, j) == (((N * N) + N + 1) \div 3) - oss_baseIdx3(j, N)

\* the tuple <<i, j, k>> before the shear is undone, OffGridTuple where an
\* index left the grid
oss_decompressTuple(I, info, rounds_down, undefined_id) ==
    LET k == oss_solveForI4(I, info.N, info.MI4, rounds_down, undefined_id)
        I1 == WideSub(I, WideSub(info.MI4, oss_baseIdx4(k, info.N)))
        N1 == info.N - 2 * k
        j == oss_solveForI3(Narrow(I1), N1)
        i == Narrow(I1) - DecoderRowOffset(N1, j)
    IN  IF k = OffGrid \/ N1 < 0 \/ I1[1] < 0 \/ j = OffGrid \/ i < 0
        THEN OffGridTuple
        ELSE <<i, j, k>>

SubSteps == 4

\* the weights v.y, v.z, v.w of the decoded tuple: j += k, i += j, then
\* (float) index * info.scale
DecodedWeights(t) ==
    <<SubSteps * (t[1] + t[2] + t[3]), SubSteps * (t[2] + t[3]), SubSteps * t[3]>>

\* info of vbac_oss_compress, from the table entry it read; the initialiser
\* of MI4 reads info.N, which the compiler has set by then
OssInfo(N) == [N |-> N, MI4 |-> oss_baseIdx4(0, N)]

\* one tuple of vbac_oss_compress; w = <<v2, v3, v4>>
EncoderRowOffset_mutant(N, j) == Trunc((4 * N * j - 3 * j * j) + 2 * j, 4)

\* toj = (N * j - j * j * 3. / 4. + j / 2. + 1. / 4.) as a uint64_t
EncoderRowOffset(N, j) == Trunc((4 * N * j - 3 * j * j) + 2 * j + 1, 4)

vbac_oss_compress(w, info) ==
    LET N0 == info.N
        k == minU64(Trunc(w[3] + (SubSteps \div 2), SubSteps), Trunc(N0 - 1, 2))
        tok == WideSub(info.MI4, oss_baseIdx4(k, N0))
        N1 == N0 - 2 * k
        j == minU64(Trunc((w[2] - SubSteps * k) + (SubSteps \div 2), SubSteps),
                    Trunc(2 * N1 - 2, 3))
        toj == EncoderRowOffset(N1, j)
        N2 == Trunc(2 * N1 - 3 * j, 2)
        i0 == Trunc(((w[1] - SubSteps * j) - SubSteps * k) + (SubSteps \div 2), SubSteps)
        i == IF N2 = 0 THEN i0 ELSE minU64(i0, N2 - 1)
    IN  [i |-> i, j |-> j, k |-> k,
         code |-> WideAdd(WideAdd(Wide(i), Wide(toj)), tok)]

\* code |= ((uint64_t) tuple_index) << weights_bit_count, as the set of the
\* set bits of the uint64_t
OssPayload_mutant(code, tuple_index, weights_bit_count) ==
    WideBits(code) \cup ({b + (weights_bit_count - 1) : b \in tuple_index} \cap (0 .. 63))

OssPayload(code, tuple_index, weights_bit_count) ==
    WideBits(code) \cup ({b + weights_bit_count : b \in tuple_index} \cap (0 .. 63))

(***************************************************************************)
(* Specification of the optimal simplex sampling codec: a tuple is         *)
(* encoded, the code is decoded, and the decoded weights are encoded       *)
(* again.                                                                  *)
(***************************************************************************)
MaxGridBits == 6

\* the length of oss_LUT_N
TableLength == 65

\* the bit counts of the three methods of the per-vertex encoder
OssSizes ==
    {get_optimal_simplex_sampling_bit_count(method) :
        method \in {"optimal_simplex_sampling_19", "optimal_simplex_sampling_22",
                    "optimal_simplex_sampling_35"}}

BitCountsBeyondTable == {TableLength, TableLength + 1}

OssBitCounts == (0 .. MaxGridBits) \cup OssSizes \cup BitCountsBeyondTable

\* oss_LUT_N[totalBits]; behind the table the read gives whatever lies there
BeyondTable == {0, 5}

TableReads(totalBits) ==
    IF totalBits < TableLength THEN {oss_LUT_N[totalBits + 1]} ELSE BeyondTable

KMax(N) == Trunc(N - 1, 2)
JMax(N1) == Trunc(2 * N1 - 2, 3)
IMax(N1, j) == Trunc(2 * N1 - 3 * j, 2) - 1

\* the tuples the encoder's three clamps admit on a grid of N points
Admissible(t, N) ==
    /\ t[3] \in 0 .. KMax(N)
    /\ t[2] \in 0 .. JMax(N - 2 * t[3])
    /\ t[1] \in 0 .. IMax(N - 2 * t[3], t[2])

Ends(top) == {0, 1, top - 1, top} \cap (0 .. top)

\* tuples whose code lies where the decoder's cube root is a whole number
\* up to the rounding of pow
CubeRootTuples ==
    {<<5, 2, 93>>, <<41, 17, 9>>, <<5, 2, 199>>, <<191, 36, 7>>,
     <<5, 8, 4247>>, <<885, 1416, 2135>>, <<1770, 2832, 11>>}

\* on the large grids: the tuples at the ends of the three ranges
OssSampleTuples(N) ==
    UNION {UNION {{<<i, j, k>> : i \in Ends(IMax(N - 2 * k, j))} :
                      j \in Ends(JMax(N - 2 * k))} : k \in Ends(KMax(N))}
        \cup {t \in CubeRootTuples : Admissible(t, N)}

\* weights <<v2, v3, v4>> in SubSteps-th parts of the grid step, v2 >= v3 >= v4
OssWeights(N) ==
    IF N <= oss_LUT_N[MaxGridBits + 1]
    THEN LET range == 0 .. (IF N = 0 THEN 0 ELSE SubSteps * (N - 1))
         IN  {w \in range \X range \X range : w[1] >= w[2] /\ w[2] >= w[3]}
    ELSE {DecodedWeights(t) : t \in OssSampleTuples(N)}
            \cup {<<2 * (N - 1), 2 * (N - 1), 2 * (N - 1)>>,
                  <<SubSteps * (N - 1), 0, 0>>,
                  <<SubSteps * (N - 1), SubSteps * (N - 1), SubSteps * (N - 1)>>}

OssTupleIndices(totalBits) ==
    IF totalBits \in OssSizes THEN {U32(5), WordRange} ELSE {{}}

InitOss ==
    /\ pc = "ready"
    /\ mem = {}
    /\ mcall = NoCall
    /\ params = NoCall
    /\ request = NoCall
    /\ history = <<>>
    /\ cstat = NoCall
    /\ call = NoCall
    /\ out = NoCall
    /\ rcall = NoCall
    /\ rout = NoCall
    /\ vcall = NoCall
    /\ \E totalBits \in OssBitCounts :
          \E N \in TableReads(totalBits) :
             \E w \in OssWeights(N) :
                \E tuple_index \in OssTupleIndices(totalBits) :
                   oss = [kind |-> "oss", totalBits |-> totalBits,
                          info |-> OssInfo(N), tuple_index |-> tuple_index,
                          weights |-> w, encoded |-> <<>>, decoded |-> <<>>]

\* the rounding of (float) index * info.scale moves a weight above zero by
\* less than one part of the grid step
FloatError == {-1, 0, 1}

Rounded(a, e) == IF a = 0 THEN 0 ELSE a + e

\* vbac_oss_compress on the weights at hand, and for the three sizes of the
\* per-vertex encoder the tuple index above the code
OssCompress ==
    /\ pc \in {"ready", "decoded"}
    /\ oss.kind = "oss"
    /\ \E r \in {IF oss.weights = OffGridTuple
                 THEN [i |-> OffGrid, j |-> OffGrid, k |-> OffGrid, code |-> Huge]
                 ELSE vbac_oss_compress(oss.weights, oss.info)} :
          LET payload == IF oss.totalBits \in OssSizes
                         THEN OssPayload(r.code, oss.tuple_index, oss.totalBits)
                         ELSE {}
          IN  oss' = [oss EXCEPT !.encoded =
                          Append(@, [tuple |-> <<r.i, r.j, r.k>>, code |-> r.code,
                                     payload |-> payload])]
    /\ pc' = IF pc = "ready" THEN "encoded" ELSE "done"
    /\ UNCHANGED <<mem, mcall, params, request, history, cstat, call, out, rcall, rout, vcall>>

\* vbac_oss_decompress on the code just written
OssDecompress ==
    /\ pc = "encoded"
    /\ \E t \in {oss_decompressTuple(oss.encoded[1].code, oss.info,
                                      rounds_down, undefined_id) :
                      rounds_down \in BOOLEAN, undefined_id \in {0, OffGrid}} :
          \E e \in FloatError \X FloatError \X FloatError :
             LET v == DecodedWeights(t)
             IN  oss' = [oss EXCEPT
                            !.decoded = <<t>>,
                            !.weights = IF t = OffGridTuple THEN OffGridTuple
                                        ELSE <<Rounded(v[1], e[1]), Rounded(v[2], e[2]),
                                               Rounded(v[3], e[3])>>]
    /\ pc' = "decoded"
    /\ UNCHANGED <<mem, mcall, params, request, history, cstat, call, out, rcall, rout, vcall>>

NextOss == OssCompress \/ OssDecompress

SpecOss == InitOss /\ [][NextOss]_vars

Tabulated == oss.totalBits \in 0 .. (TableLength - 1)

(* C18: the encoder called with a bit count outside the table fails and    *)
(* produces no code, and called with a bit count of the table it produces  *)
(* a code for its input.                                                   *)
OssFailsOutsideTheTable ==
    pc # "ready" => (Tabulated <=> oss.encoded # <<>>)

\* what the code does instead: it has no failure, every call writes a code
OssAlwaysWritesACode ==
    pc # "ready" => oss.encoded # <<>>

BitsBelow(n) == 0 .. (n - 1)

(* C19: for the bit counts 19, 22 and 35 the tuple the encoder chooses is  *)
(* admissible on the grid of oss_LUT_N and its code i + toj + tok is below *)
(* 2^B, so that in the payload the bits below B are the bits of the code   *)
(* and the bits from B on are the bits of the tuple index.                 *)
OssCodeStaysBelowTupleIndex ==
    (pc # "ready" /\ oss.totalBits \in OssSizes) =>
        \A n \in 1 .. Len(oss.encoded) :
            LET written == oss.encoded[n]
                B == oss.totalBits
            IN  /\ Admissible(written.tuple, oss.info.N)
                /\ WideLess(written.code, oss.info.MI4)
                /\ WideBits(written.code) \subseteq BitsBelow(B)
                /\ written.payload \cap BitsBelow(B) = WideBits(written.code)
                /\ {b - B : b \in written.payload \ BitsBelow(B)}
                       = {b \in oss.tuple_index : b + B < 64}

\* the largest code of the 35-bit grid, with a tuple index of 32 ones above it
OssLargestCodeWitness ==
    /\ pc = "encoded"
    /\ oss.totalBits = 35
    /\ oss.tuple_index = WordRange
    /\ oss.encoded[1].code = WideSub(oss.info.MI4, Wide(1))
    /\ 34 \in WideBits(oss.encoded[1].code)
    /\ oss.encoded[1].tuple[3] = KMax(oss.info.N)

RoundTrips ==
    /\ oss.decoded[1] = oss.encoded[1].tuple
    /\ oss.encoded[2].code = oss.encoded[1].code

(* C20: for every grid size of oss_LUT_N, decoding a code the encoder      *)
(* produced recovers the tuple (i, j, k) the encoder used, so that         *)
(* distinct tuples have distinct codes, and encoding the decoded weights   *)
(* gives the same code again.                                              *)
OssCodeRoundTrips ==
    (pc = "done" /\ Tabulated) => RoundTrips

\* the same on the grids that have a point
OssCodeRoundTripsOnAGrid ==
    (pc = "done" /\ Tabulated /\ oss.info.N >= 1) =>
        /\ RoundTrips
        /\ Admissible(oss.decoded[1], oss.info.N)

\* on the grids that have a point no index leaves the grid
OssStaysOnTheGrid ==
    (Tabulated /\ oss.info.N >= 1) =>
        /\ \A n \in 1 .. Len(oss.encoded) : oss.encoded[n].code[1] >= 0
        /\ \A n \in 1 .. Len(oss.decoded) : oss.decoded[n] # OffGridTuple

-----------------------------------------------------------------------------
(* Specification of compress_vertex_blend_attributes(): one vertex with    *)
(* sorted weights is written over a payload that holds old content.        *)

MaxVertexBones == 4

VertexRequests ==
    { Request(m, k, c, s) : m \in {"unit_cube_sampling", "power_of_two_aabb"},
                            k \in 2 .. MaxVertexBones,
                            c \in {4, 256}, s \in {1, 2, 4} }

VertexBundles ==
    { complete_blend_attribute_compression_parameters(r, FALSE) :
        r \in VertexRequests }

\* The weights n / WeightDen of one vertex as get_sorted_pairs() leaves them:
\* in ascending order, not negative, with sum one
SortedWeights(k) ==
    { w \in [1 .. k -> 0 .. WeightDen] :
        /\ \A i \in 1 .. (k - 1) : w[i] <= w[i + 1]
        /\ SumSeq(w) = WeightDen }

VertexPairs(w) == [i \in 1 .. Len(w) |-> [index |-> 10 + i, weight |-> w[i]]]

VertexPatterns == { {}, 0 .. (MemBits - 1) }

\* Step i (from 0) of the loops in compress_vertex_blend_attributes(): the
\* position (from 1) in pairs of the weight it stores, the bit count and the
\* bit offset of its field
StoredPosition(p, i) ==
    IF p.method = "unit_cube_sampling" THEN i + 1
    ELSE (p.max_bone_count - 2 - i) + 1

FieldBitCount(p, i) ==
    IF p.method = "unit_cube_sampling" THEN p.weight_base_bit_count
    ELSE p.weight_base_bit_count - power_of_two_weight_savings[i + 1]

FieldOffset(p, i) ==
    IF p.method = "unit_cube_sampling" THEN i * p.weight_base_bit_count
    ELSE i * p.weight_base_bit_count - SavedBitCount(i)

\* The value that step i quantizes
StepQuantized(p, pairs, i) ==
    IF p.method = "unit_cube_sampling"
    THEN quantize_weight(pairs[StoredPosition(p, i)].weight,
                         p.weight_base_bit_count)
    ELSE quantize_half_weight(pairs[StoredPosition(p, i)].weight,
                              p.weight_base_bit_count)

InitVertex ==
    /\ pc = "ready"
    /\ mem \in VertexPatterns
    /\ mcall = NoCall
    /\ params = NoCall
    /\ request = NoCall
    /\ history = <<>>
    /\ cstat = NoCall
    /\ call = NoCall
    /\ out = NoCall
    /\ rcall = NoCall
    /\ rout = NoCall
    /\ oss = NoCall
    /\ \E p \in VertexBundles :
       \E w \in SortedWeights(p.max_bone_count),
          tuple_index \in {U32(0), U32(3)} :
           vcall = [kind |-> "vertex", params |-> p, pairs |-> VertexPairs(w),
                    tuple_index |-> tuple_index, old |-> mem]

\* compress_vertex_blend_attributes(compressed, pairs, tuple_index, params)
CompressVertex ==
    /\ pc = "ready"
    /\ vcall.kind = "vertex"
    /\ mem' = compress_vertex_blend_attributes(mem, 0, vcall.pairs,
                                               vcall.tuple_index,
                                               vcall.params, {})
    /\ pc' = "done"
    /\ UNCHANGED <<mcall, params, request, history, cstat, call, out, rcall,
                   rout, oss, vcall>>

NextVertex == CompressVertex

SpecVertex == InitVertex /\ [][NextVertex]_vars

VertexWritten == pc = "done" /\ vcall.kind = "vertex"

\* C21: with the power-of-two AABB method, the value that quantize_half_weight
\* yields at step i of the encoder is less than
\* 2^(weight_base_bit_count - power_of_two_weight_savings[i]), so it fits the
\* bits of its field, for every sorted weight vector with sum one.
QuantizedHalfWeightFits ==
    (VertexWritten /\ vcall.params.method = "power_of_two_aabb") =>
        \A i \in 0 .. (vcall.params.max_bone_count - 2) :
            StepQuantized(vcall.params, vcall.pairs, i)
                < 2 ^ FieldBitCount(vcall.params, i)

\* The payload bits of one vertex that the fields of the weights and of the
\* tuple index cover, and the others
WeightFieldBits(p) ==
    UNION { FieldOffset(p, i) .. (FieldOffset(p, i) + FieldBitCount(p, i) - 1) :
              i \in 0 .. (p.max_bone_count - 2) }

TupleIndexFieldBits(p) ==
    TupleIndexOffset(p) .. (TupleIndexOffset(p) + p.tuple_index_bit_count - 1)

UnusedPayloadBits(p) ==
    (0 .. (8 * p.vertex_size - 1))
        \ (WeightFieldBits(p) \cup TupleIndexFieldBits(p))

\* C22: after the per-vertex encoder has written a vertex with the unit cube
\* or the power-of-two AABB method, every bit of the vertex_size payload bytes
\* that no weight field and no tuple index field covers is zero, whatever the
\* payload held before.
UnusedPayloadBitsAreZero ==
    VertexWritten => \A b \in UnusedPayloadBits(vcall.params) : b \notin mem

\* The encoder leaves every bit outside the fields as it was
UnusedPayloadBitsAreKept ==
    VertexWritten =>
        \A b \in (0 .. (MemBits - 1))
                    \ (WeightFieldBits(vcall.params)
                         \cup TupleIndexFieldBits(vcall.params)) :
            (b \in mem) <=> (b \in vcall.old)

-----------------------------------------------------------------------------
(* The row sort and the sweep of compress_blend_attribute_buffers()        *)

\* long_table before qsort() of a finished call
LongTable ==
    [i \in 1 .. call.vertex_count |->
        LongTableRow(i - 1, out.sorted[i], call.params)]

\* The state the sweep of the finished call ends in had qsort() left the
\* rows in order f
SweepForRowOrder(f) ==
    Sweep([i \in 1 .. call.vertex_count |-> LongTable[f[i]]], 1,
          [representative |-> call.nd.representative, table_size |-> 0,
           table |-> call.old_table, representatives |-> <<>>,
           vertex_tuple_index |-> [v \in VertexIds |-> {}]],
          call.params.max_bone_count, call.has_table, call.max_table_size)

\* C23: the outcome of compress_blend_attribute_buffers does not depend on
\* the order in which the row sort leaves rows that compare equal: the table
\* rows, table_size and the tuple index of every vertex are the same for
\* every order qsort() may produce.
RowSortTiesDoNotMatter ==
    Compressed =>
        \A f \in RowOrders(LongTable) \ {call.nd.row_order} :
            \A st \in {SweepForRowOrder(f)} :
                /\ st.table = out.table
                /\ st.table_size = out.table_size
                /\ st.vertex_tuple_index = out.vertex_tuple_index

\* Two vertices with one effective tuple of more than one bone, left by
\* qsort() in the reverse of their order in the buffer, and a table row
\* written for them
RowSortTieWitness ==
    /\ Compressed
    /\ call.vertex_count >= 2
    /\ call.has_table
    /\ out.ret = 0
    /\ out.table_size = 1
    /\ ~IsSingleton(EffectiveTuple(0), call.params.max_bone_count)
    /\ EffectiveTuple(0) = EffectiveTuple(1)
    /\ call.nd.row_order[1] > call.nd.row_order[2]
    /\ Cardinality(RowOrders(LongTable)) >= 2

\* The vertices of a finished call whose effective tuple is no singleton
NonSingletons ==
    {v \in VertexIds :
        ~IsSingleton(EffectiveTuple(v), call.params.max_bone_count)}

\* Vertices with one effective tuple get one tuple index
DuplicatesShareTheIndex ==
    Compressed =>
        \A v, w \in NonSingletons :
            EffectiveTuple(v) = EffectiveTuple(w)
                => out.vertex_tuple_index[v] = out.vertex_tuple_index[w]

\* No two rows that the sweep writes are equal
TableRowsDiffer ==
    Compressed =>
        \A a, b \in 1 .. Len(out.representatives) :
            a # b => out.representatives[a] # out.representatives[b]

\* All vertices with more than one bone share one effective tuple
OneSharedTuple ==
    /\ NonSingletons # {}
    /\ \A v, w \in NonSingletons : EffectiveTuple(v) = EffectiveTuple(w)

\* C24: two vertices with identical effective tuples of more than one bone
\* get the same tuple index, no two table rows are equal, and when all such
\* vertices share one effective tuple, table_size is 1 and the tuple index of
\* each of them is 0.
DuplicatesCollapse ==
    Compressed =>
        /\ \A v, w \in NonSingletons :
              EffectiveTuple(v) = EffectiveTuple(w)
                  => out.vertex_tuple_index[v] = out.vertex_tuple_index[w]
        /\ \A a, b \in 1 .. Len(out.representatives) :
              a # b => out.representatives[a] # out.representatives[b]
        /\ OneSharedTuple =>
              /\ out.table_size = 1
              /\ \A v \in NonSingletons : out.vertex_tuple_index[v] = U32(0)

\* The first position, scanning from the last, where two tuples differ, or 0
FirstDifference(lhs, rhs) ==
    LET d == {j \in 1 .. Len(lhs) : lhs[j] # rhs[j]}
    IN  IF d = {} THEN 0 ELSE CHOOSE j \in d : \A i \in d : i <= j

\* C25 as stated: the sorted rows are ordered on the reversed tuple with the
\* sentinel less than any bone id: at the first position, scanning from the
\* last, where two rows differ, a row that holds the sentinel there comes
\* before a row that holds a bone id there.
SentinelRowsComeFirst ==
    Compressed =>
        \A a, b \in 1 .. Len(out.rows) :
            LET j == FirstDifference(out.rows[a].tuple, out.rows[b].tuple)
            IN  (a < b /\ j # 0) =>
                    ~(out.rows[a].tuple[j] # irrelevant
                        /\ out.rows[b].tuple[j] = irrelevant)

\* C25: the sorted rows ascend on the reversed tuple under the order of
\* uint16_t, in which the sentinel 0xffff is greater than any other bone id:
\* at the first position, scanning from the last, where two rows differ, the
\* earlier row holds the smaller value, so a row that holds the sentinel there
\* comes after a row that holds a bone id there.
SentinelRowsComeLast ==
    Compressed =>
        \A a, b \in 1 .. Len(out.rows) :
            LET j == FirstDifference(out.rows[a].tuple, out.rows[b].tuple)
            IN  (a < b /\ j # 0) =>
                    /\ out.rows[a].tuple[j] < out.rows[b].tuple[j]
                    /\ ~(out.rows[a].tuple[j] = irrelevant
                           /\ out.rows[b].tuple[j] # irrelevant)

\* Two sorted rows that first differ where the second holds the sentinel
SentinelRowWitness ==
    /\ Compressed
    /\ call.vertex_count >= 2
    /\ LET j == FirstDifference(out.rows[1].tuple, out.rows[2].tuple)
       IN  /\ j # 0
           /\ out.rows[1].tuple[j] # irrelevant
           /\ out.rows[2].tuple[j] = irrelevant

\* Tuple b agrees with tuple a wherever a holds a bone id and holds a bone id
\* somewhere a holds the sentinel
MoreSpecific(b, a) ==
    /\ \A j \in 1 .. Len(a) : a[j] # irrelevant => b[j] = a[j]
    /\ \E j \in 1 .. Len(a) : a[j] = irrelevant /\ b[j] # irrelevant

\* The place (from 1) of the row of vertex v after the row sort
RowPosition(v) ==
    CHOOSE i \in 1 .. Len(out.rows) : out.rows[i].vertex_index = v

\* The more specific row is swept first and the less specific tuple is never
\* written to the table
MoreSpecificRowsComeFirst ==
    Compressed =>
        \A a \in NonSingletons, b \in VertexIds :
            MoreSpecific(EffectiveTuple(b), EffectiveTuple(a)) =>
                /\ RowPosition(b) < RowPosition(a)
                /\ \A r \in 1 .. Len(out.representatives) :
                      out.representatives[r] # EffectiveTuple(a)

\* C26: when the effective tuple of vertex B agrees with that of vertex A at
\* every position where A holds a bone id and B holds a bone id where A holds
\* the sentinel, B is swept first, the tuple of A never becomes a table row
\* and A gets the index of a representative that holds a bone id wherever B
\* does.
MergeByCoverage ==
    Compressed =>
        \A a \in NonSingletons, b \in VertexIds :
            MoreSpecific(EffectiveTuple(b), EffectiveTuple(a)) =>
                /\ RowPosition(b) < RowPosition(a)
                /\ \A r \in 1 .. Len(out.representatives) :
                      out.representatives[r] # EffectiveTuple(a)
                /\ \E r \in 1 .. Len(out.representatives) :
                      /\ out.vertex_tuple_index[a] = U32(r - 1)
                      /\ \A j \in 1 .. call.params.max_bone_count :
                            EffectiveTuple(b)[j] # irrelevant
                                => out.representatives[r][j] # irrelevant

\* The tuple index field in the payload of vertex v (from 0)
StoredTupleIndex(v) ==
    ExtractBits(out.mem, v * call.compressed_stride * 8,
                TupleIndexOffset(call.params),
                call.params.tuple_index_bit_count)

\* C27: when compress_blend_attribute_buffers returns 0, the tuple index of
\* every vertex with more than one bone is less than 2^tuple_index_bit_count
\* and less than max_tuple_count, the tuple index field of its payload holds
\* that index, and table_size does not exceed max_tuple_count.
TupleIndexFitsItsField ==
    (Compressed /\ out.ret = 0) =>
        /\ \A v \in NonSingletons :
              /\ \E r \in 0 .. (2 ^ call.params.tuple_index_bit_count - 1) :
                    out.vertex_tuple_index[v] = U32(r)
              /\ \E r \in 0 .. (call.params.max_tuple_count - 1) :
                    out.vertex_tuple_index[v] = U32(r)
              /\ call.has_compressed =>
                    StoredTupleIndex(v) = out.vertex_tuple_index[v]
        /\ out.table_size <= call.params.max_tuple_count

\* The places (from 1) of the sorted rows with more than one bone
NonSingletonRows ==
    {i \in 1 .. Len(out.rows) :
        ~IsSingleton(out.rows[i].tuple, call.params.max_bone_count)}

FirstNonSingletonRow == CHOOSE i \in NonSingletonRows : \A n \in NonSingletonRows : i <= n

\* C28: every vertex with more than one bone gets a tuple index in
\* [0, table_size): the first such row in sorted order starts representative
\* 0 with its tuple, whatever the representative array held before, and no
\* vertex gets table_size - 1 while table_size is 0.
TupleIndexIsInTheTable ==
    Compressed =>
        /\ \A v \in NonSingletons :
              \E r \in 0 .. (out.table_size - 1) :
                  out.vertex_tuple_index[v] = U32(r)
        /\ NonSingletonRows # {} =>
              /\ out.table_size >= 1
              /\ out.representatives[1] = out.rows[FirstNonSingletonRow].tuple
              /\ out.vertex_tuple_index[
                     out.rows[FirstNonSingletonRow].vertex_index] = U32(0)

\* The same holds when the content of representative at the start differs
\* from the first row with more than one bone at a position where that row
\* holds a bone id
TupleIndexIsInTheTableWithoutMatch ==
    (/\ Compressed
     /\ NonSingletonRows # {}
     /\ ~MatchingSuffix(call.nd.representative,
                        out.rows[FirstNonSingletonRow].tuple,
                        call.params.max_bone_count)) =>
        /\ \A v \in NonSingletons :
              \E r \in 0 .. (out.table_size - 1) :
                  out.vertex_tuple_index[v] = U32(r)
        /\ out.representatives[1] = out.rows[FirstNonSingletonRow].tuple

-----------------------------------------------------------------------------
(* The row offsets of the optimal simplex sampling encoder and decoder     *)

\* The grid sizes that remain after the first step of the encoder and the
\* indices j of the second step: all of them on the small grids, on the large
\* grids those at the ends of the ranges and those of the tuple just encoded
RemainingSizes ==
    LET N == oss.info.N
    IN  {N - 2 * k :
            k \in IF N <= oss_LUT_N[MaxGridBits + 1] THEN 0 .. KMax(N)
                  ELSE Ends(KMax(N)) \cup {oss.encoded[1].tuple[3]}}

SecondIndices(N1) ==
    IF oss.info.N <= oss_LUT_N[MaxGridBits + 1] THEN 0 .. JMax(N1)
    ELSE Ends(JMax(N1)) \cup ({oss.encoded[1].tuple[2]} \cap (0 .. JMax(N1)))

\* C29: for every grid size N that remains after the first step of the
\* encoder and every j from 0 to floor((2N+1)/3) - 1, the offset
\* floor(N*j - 3*j*j/4 + j/2 + 1/4) the encoder adds equals the offset
\* (N*N+N+1)/3 - oss_baseIdx3(j, N) the decoder subtracts, (N*N+N+1)/3 equals
\* oss_baseIdx3(0, N), and the code written is i plus the decoder's offset
\* plus the offset of k.
OssRowOffsetsAgree ==
    (pc # "ready" /\ Tabulated) =>
        /\ \A N1 \in RemainingSizes :
              /\ ((N1 * N1) + N1 + 1) \div 3 = oss_baseIdx3(0, N1)
              /\ \A j \in SecondIndices(N1) :
                    EncoderRowOffset(N1, j) = DecoderRowOffset(N1, j)
        /\ oss.info.N >= 1 =>
              LET t == oss.encoded[1].tuple
              IN  oss.encoded[1].code =
                      WideAdd(Wide(t[1] + DecoderRowOffset(oss.info.N - 2 * t[3],
                                                           t[2])),
                              WideSub(oss.info.MI4,
                                      oss_baseIdx4(t[3], oss.info.N)))

\* A code of the 22-bit grid for an odd j, where the quarter the encoder adds
\* decides the floor
OssOddRowWitness ==
    /\ pc = "encoded"
    /\ oss.totalBits = 22
    /\ oss.encoded[1].tuple[2] % 2 = 1
    /\ oss.encoded[1].tuple[2] > 1
    /\ oss.encoded[1].tuple[3] > 0
    /\ EncoderRowOffset(oss.info.N - 2 * oss.encoded[1].tuple[3],
                        oss.encoded[1].tuple[2]) > 0

-----------------------------------------------------------------------------
(* The weights that count as zero in the table and in the payload          *)

\* The weight field that step i of the encoder left in the payload
StoredWeightField(p, i) ==
    ExtractBits(mem, 0, FieldOffset(p, i), FieldBitCount(p, i))

\* C30: for a completed unit cube or power-of-two AABB bundle, a position
\* before the last of the effective tuple holds the sentinel if and only if
\* the weight field that compress_vertex_blend_attributes stores for that
\* weight is zero.
DegenerateWeightsAgree ==
    VertexWritten =>
        \A i \in 0 .. (vcall.params.max_bone_count - 2) :
            (StoredPosition(vcall.params, i)
                 \in flag_zero_compressed_weights(vcall.pairs, vcall.params))
              <=> (StoredWeightField(vcall.params, i) = {})

\* They agree when every quantized weight fits its field
DegenerateWeightsAgreeWhenFieldsFit ==
    (/\ VertexWritten
     /\ \A i \in 0 .. (vcall.params.max_bone_count - 2) :
           StepQuantized(vcall.params, vcall.pairs, i)
               < 2 ^ FieldBitCount(vcall.params, i)) =>
        \A i \in 0 .. (vcall.params.max_bone_count - 2) :
            (StoredPosition(vcall.params, i)
                 \in flag_zero_compressed_weights(vcall.pairs, vcall.params))
              <=> (StoredWeightField(vcall.params, i) = {})

====
